---- MODULE Spec2Model ----
(***************************************************************************)
(* RAG Pipeline Tester: the React front end (src/frontend/src) together    *)
(* with the back-end contracts it calls.  The front end is modelled from   *)
(* its source; the back end (chunker, vector store, retriever, RAG         *)
(* orchestrator) is not part of the source tree and is modelled from the   *)
(* design specification.                                                   *)
(*                                                                         *)
(* Each component of the UI is a group of variables with its own actions.  *)
(* A component specification (SpecCompare, SpecQuery, ...) runs one        *)
(* component together with the back-end parts it talks to and leaves the   *)
(* other components' variables untouched.                                  *)
(***************************************************************************)
EXTENDS Integers, Sequences, FiniteSets, Bags, TLC

(***************************************************************************)
(* Bounds of the model.                                                    *)
(***************************************************************************)
\* longest text typed into a question / query box
MaxQLen == 1
\* most chunks a retrieval returns in the model
MaxCtx == 2

(***************************************************************************)
(* Nullable values (T | null) are sequences of length at most one.         *)
(***************************************************************************)
Null == <<>>

Some(x) == <<x>>

IsNull(o) == Len(o) = 0

Val(o) == o[1]

SeqToSet(s) == {s[i] : i \in 1..Len(s)}

\* Array.prototype.includes
Includes(s, x) == \E i \in 1..Len(s) : s[i] = x

\* Array.prototype.filter(y => y !== x)
RECURSIVE Without(_, _)
Without(s, x) ==
  IF s = <<>> THEN <<>>
  ELSE IF Head(s) = x THEN Without(Tail(s), x)
       ELSE <<Head(s)>> \o Without(Tail(s), x)

SetMin(S) == CHOOSE x \in S : \A y \in S : x <= y

SetMax(S) == CHOOSE x \in S : \A y \in S : y <= x

\* !!value of a string or null: null and '' are falsy
Truthy(o) == ~IsNull(o) /\ Val(o) # ""

(***************************************************************************)
(* Requests under way are kept in bags: two requests with the same content *)
(* are two requests.                                                       *)
(***************************************************************************)
Put(bag, x) == bag (+) SetToBag({x})

Take(bag, x) == bag (-) SetToBag({x})

\* a request whose component has been unmounted
Unmounted(x) == [x EXCEPT !.mounted = FALSE]

(***************************************************************************)
(* Requests that fail (api.ts).  The response interceptor turns a failed   *)
(* request into an Error; a function of api.ts throws an Error itself when *)
(* the envelope of the reply says success: false.  A catch block shows the *)
(* message of what it caught.                                              *)
(***************************************************************************)
Error(message) == [isError |-> TRUE, message |-> message]

\* a value that is thrown and is not an Error
NonError == [isError |-> FALSE, message |-> "cancelled"]

\* no response came back
NetworkDown ==
  [response |-> FALSE, request |-> TRUE, detail |-> "",
   rejection |-> Error("Network Error")]

\* the server responded with an error status and this detail
HttpError(detail) ==
  [response |-> TRUE, request |-> TRUE, detail |-> detail,
   rejection |-> Error("Request failed")]

\* the request could not be set up: the promise is rejected with this value
NotSent(rejection) ==
  [response |-> FALSE, request |-> FALSE, detail |-> "",
   rejection |-> rejection]

Failures ==
  {NetworkDown, HttpError("boom"), HttpError(""), NotSent(Error("bad url")),
   NotSent(NonError)}

\* api.interceptors.response.use(response => response, error => ...)
Intercepted(failure) ==
  IF failure.response
  THEN Error(IF failure.detail # "" THEN failure.detail
             ELSE "An error occurred")
  ELSE IF failure.request
  THEN Error("Network error - please check if the backend is running")
  ELSE failure.rejection

\* throw new Error(response.data.message || fallback)
Refused(reply, fallback) ==
  Error(IF reply.message # "" THEN reply.message ELSE fallback)

\* what the envelope of a reply says when the back end refuses
RefusalMessages == {"", "backend unavailable"}

\* what the await of a call through api.ts can throw: what the interceptor
\* makes of a request that failed, or the Error of a reply whose envelope
\* says success: false
Thrown(fallback) ==
  {Intercepted(failure) : failure \in Failures}
    \cup {Refused([success |-> FALSE, message |-> message], fallback) :
            message \in RefusalMessages}

\* what it throws when the back end cannot be reached
Unreached == {Intercepted(NetworkDown)}

\* err instanceof Error ? err.message : fallback
MessageOf(err, fallback) == IF err.isError THEN err.message ELSE fallback

(***************************************************************************)
(* Text boxes.  A text is a sequence of characters; SP is white space.     *)
(***************************************************************************)
SP == " "

Chars == {SP, "a"}

Texts == UNION {[1..n -> Chars] : n \in 0..MaxQLen}

\* String.prototype.trim
RECURSIVE TrimLeft(_)
TrimLeft(s) ==
  IF s = <<>> THEN <<>>
  ELSE IF Head(s) = SP THEN TrimLeft(Tail(s)) ELSE s

RECURSIVE TrimRight(_)
TrimRight(s) ==
  IF s = <<>> THEN <<>>
  ELSE IF s[Len(s)] = SP THEN TrimRight(SubSeq(s, 1, Len(s) - 1)) ELSE s

Trim(s) == TrimRight(TrimLeft(s))

\* !text.trim()
Blank(s) == Trim(s) = <<>>

(***************************************************************************)
(* Number boxes.  The box holds what the user typed; the state holds       *)
(* parseInt of it, which is NaN for the emptied box.                       *)
(***************************************************************************)
NaN == [nan |-> TRUE, val |-> 0]

Num(n) == [nan |-> FALSE, val |-> n]

TopKMin == 1

TopKMax == 20

TopKDefault == 3

\* what parseInt(e.target.value) yields for the texts a user types
TopKTyped == {NaN, Num(TopKMin - 1), Num(TopKDefault), Num(TopKMax + 1)}

\* <input type="number" min max>: the browser refuses to submit the form while
\* the box holds a number outside [min, max]; the emptied box is not refused.
RangeOk(x, lo, hi) == x.nan \/ (lo <= x.val /\ x.val <= hi)

\* the back end's range check on top_k (ValidationError)
TopKValid(x) == ~x.nan /\ TopKMin <= x.val /\ x.val <= TopKMax

Backends == {"chromadb", "faiss"}

CollNames == {"default"}

\* the names typed into a Collection Name box
CollectionsTyped == {"default", "papers"}

(***************************************************************************)
(* State.                                                                  *)
(***************************************************************************)
VARIABLES
  \* RAGCompare component (RAGCompare.tsx)
  cmpProviders,        \* providers: string[]
  cmpLoadingProviders, \* loadingProviders
  cmpSelected,         \* selectedProviders: string[]
  cmpQuestion,         \* question
  cmpTopK,             \* topK
  cmpLoading,          \* loading
  cmpError,            \* error: string | null
  cmpResponse,         \* response: RAGCompareResponse | null
  cmpHttp,             \* the POST of ragCompare: "none", "sent", "running", "replied"
  cmpRequest,          \* the request body on the wire
  cmpReply,            \* the back end's reply, once there is one
  cmpAsked,            \* selectedProviders as they were when Compare was pressed
  cmpSettled,          \* how often this request's promise has settled
  \* RAG orchestrator, compare mode (back end)
  orch,
  \* RAGQuery component (TextDisplay.tsx)
  qryProviders,        \* providers: string[]
  qryLoadingProviders, \* loadingProviders
  qryProvider,         \* provider: '' while none is chosen
  qryQuestion,         \* question
  qryLoading,          \* loading
  qryError,            \* error: string | null
  qryResponse,         \* response: RAGQueryResponse | null
  qryHttp,             \* the POST of ragQuery: "none", "sent", "running", "replied"
  qryRequest,          \* the request body on the wire
  qryReply,            \* the back end's reply, once there is one
  \* RAG orchestrator, single-provider mode (back end)
  qryContext,          \* the context its retrieval obtained
  qryOrphans,          \* the RAGQueryRequests on the wire whose RAGQuery
                       \* has been unmounted
  embOrphans,          \* the EmbeddingRequests on the wire whose
                       \* EmbeddingConfig has been unmounted, each with
                       \* whether a chunking completion has been recorded
                       \* since it was issued and whether the back end
                       \* has handled it
  vsOrphans,           \* the StoreVectorsRequests on the wire whose
                       \* VectorStoreSelector has been unmounted, each with
                       \* the vectorStoreStatus closed over and the back
                       \* end's reply, once there is one
  \* MultiDocumentChunking component (MultiDocumentChunking.tsx)
  chkDocuments,        \* documents (prop): the selected documents
  chkStrategy,         \* strategy
  chkSize,             \* chunkSize
  chkOverlap,          \* overlap
  chkIsChunking,       \* isChunking
  chkStatus,           \* chunkingStatus: document id -> status
  chkError,            \* error: string | null
  chkRun,              \* handleChunkAll in progress: its documents, its
                       \* position in them, its request on the wire and the
                       \* chunkResults its onChunkingComplete closed over
  \* App component (App.tsx)
  appChunkResults,     \* chunkResults: the ids of the documents that have one
  appEmbeddingResult,  \* embeddingResult: EmbeddingResponse | null
  embOutdated,         \* a chunking completion has been recorded since the
                       \* embedding request on the wire was issued
  appError,            \* error: string | null
  appDocuments,        \* documents: the ids of the documents listed
  appLoading,          \* loading
  appVectorStoreStatus, \* vectorStoreStatus: the back ends that have an entry
  appPhase,            \* activePhase
  chkOrphans,          \* the runs of handleChunkAll that go on although
                       \* their MultiDocumentChunking has been unmounted
  appFetches,          \* every handleDocumentSelect waiting for getDocument:
                       \* its document and the selectedDocs it closed over
  appDocDeletes,       \* every handleDocumentDelete waiting for
                       \* deleteDocument: its document, the documents,
                       \* selectedDocs and chunkResults it closed over, and
                       \* whether the DocumentList that called it is still
                       \* mounted
  beDocs,              \* document store (back end): the ids it holds
  beEmbedded,          \* embedder (back end): document id -> the model type
                       \* of the embeddings it holds for the document
  \* EmbeddingConfig component (EmbeddingConfig.tsx)
  embIsGenerating,     \* isGenerating
  embError,            \* error: string | null
  embWire,             \* the EmbeddingRequest on the wire, and whether
                       \* the back end has handled it
  embModelType,        \* modelType
  embMaxFeatures,      \* maxFeatures
  \* VectorStoreSelector component (EmbeddingConfig.tsx)
  vsIsStoring,         \* isStoring
  vsStoreStatus,       \* storeStatus: back end -> 'success' | 'error' | null
  vsError,             \* error: string | null
  vsWire,              \* the StoreVectorsRequest on the wire, with the
                       \* vectorStoreStatus and storeStatus closed over
                       \* and the back end's reply, once there is one
  vsBackend,           \* selectedBackend
  vsCollection,        \* collectionName
  \* vector stores (back end)
  store,               \* <<backend, name>> -> the collection, if there is one
  stReply,             \* what the last call on the store contract returned
  \* concurrent callers of the vector stores (back end)
  wr,                  \* caller -> its upsert call and how far it has got
  wrLock,              \* <<backend, name>> -> the caller that holds its lock
  wrBase,              \* the store as it was when the first of the calls began
  \* DatabaseManager component (EmbeddingVisualization.tsx)
  dbCollections,       \* collections: CollectionInfo[]
  dbLoading,           \* loading
  dbError,             \* error: string | null
  dbSuccess,           \* successMessage: string | null
  dbLoad,              \* loadCollections in progress: its position and what
                       \* listCollections answered
  dbDeletes,           \* every handleDelete in progress: its collection, the
                       \* collections it closed over, the reply once it is
                       \* there, and what the back end did for it
  \* SearchInterface component (SearchInterface.tsx)
  srchQuery,           \* queryText
  srchBackend,         \* selectedBackend
  srchCollection,      \* collectionName
  srchTopK,            \* topK
  srchIsSearching,     \* isSearching
  srchError,           \* error: string | null
  srchFlights,         \* every searchVectors under way: its SearchRequest,
                       \* the back end's reply once there is one, and
                       \* whether the component that sent it is still mounted
  appSearchResults,    \* App: searchResults
  \* Chunker (back end)
  ckIn,                \* the call: text, strategy, size, overlap, stride
  ckOut,               \* the chunks it returned, once it has
  \* DocumentUpload component (DocumentUpload.tsx)
  uplIsUploading,      \* isUploading
  uplError,            \* error: string | null
  uplChosen,           \* event.target.files[0] of the latest change event
  uplWire,             \* the file of the uploadDocument on the wire
  uplServed,           \* the back end has handled that upload
  uplOrphans,          \* the uploadDocument calls on the wire whose
                       \* DocumentUpload has been unmounted: the file, and
                       \* whether the back end has handled the upload
  beUploads,           \* how many uploads the back end has stored
  appLoads,            \* App: the loadDocuments calls that await
                       \* getDocuments, each with the back end's answer
                       \* once the back end has given it
  listDeletingId       \* DocumentList (DocumentList.tsx): deletingId

cmpVars ==
  <<cmpProviders, cmpLoadingProviders, cmpSelected, cmpQuestion, cmpTopK,
    cmpLoading, cmpError, cmpResponse, cmpHttp, cmpRequest, cmpReply,
    cmpAsked, cmpSettled, orch>>

qryVars ==
  <<qryProviders, qryLoadingProviders, qryProvider, qryQuestion, qryLoading,
    qryError, qryResponse, qryHttp, qryRequest, qryReply, qryContext>>

chkVars ==
  <<chkDocuments, chkStrategy, chkSize, chkOverlap, chkIsChunking, chkStatus,
    chkError,
    chkRun, appChunkResults, appEmbeddingResult, embOutdated, appError>>

\* the rest of the App, with the components of its phases 2 and 3
appVars ==
  <<appDocuments, appLoading, appVectorStoreStatus, appPhase, chkOrphans,
    appFetches, appDocDeletes, beDocs, beEmbedded, embIsGenerating, embError,
    embWire, embModelType, embMaxFeatures, vsIsStoring, vsStoreStatus,
    vsError, vsWire, vsBackend, vsCollection>>

\* requests whose component is gone
goneVars == <<qryOrphans, embOrphans, vsOrphans>>

stVars == <<store, stReply>>

wrVars == <<wr, wrLock, wrBase>>

dbVars ==
  <<dbCollections, dbLoading, dbError, dbSuccess, dbLoad, dbDeletes>>

srchVars ==
  <<srchQuery, srchBackend, srchCollection, srchTopK, srchIsSearching,
    srchError, srchFlights, appSearchResults>>

ckVars == <<ckIn, ckOut>>

uplComp == <<uplIsUploading, uplError, uplChosen, uplWire, uplServed>>

\* DocumentUpload and DocumentList of phase 0, the uploads under way and
\* the loads of the document list
uplVars == <<uplComp, uplOrphans, beUploads, appLoads, listDeletingId>>

feVars ==
  <<cmpVars, qryVars, chkVars, appVars, stVars, wrVars, dbVars, srchVars,
    goneVars>>

vars == <<feVars, ckVars, uplVars>>

\* what each component's steps leave alone
cmpOthers == <<qryVars, chkVars, stVars, wrVars, dbVars, srchVars,
  appVars, goneVars, ckVars, uplVars>>

qryOthers == <<cmpVars, chkVars, stVars, wrVars, dbVars, srchVars,
  appVars, goneVars, ckVars, uplVars>>

chkOthers == <<cmpVars, qryVars, stVars, wrVars, dbVars, srchVars,
  appVars, goneVars, ckVars, uplVars>>

stOthers == <<cmpVars, qryVars, chkVars, wrVars, dbVars, srchVars,
  appVars, goneVars, ckVars, uplVars>>

\* concurrent callers work on the store as well
wrOthers == <<cmpVars, qryVars, chkVars, stReply, dbVars, srchVars,
  appVars, goneVars, ckVars, uplVars>>

\* the DatabaseManager works on the store as well
dbOthers == <<cmpVars, qryVars, chkVars, stReply, wrVars, srchVars,
  appVars, goneVars, ckVars, uplVars>>

srchOthers == <<cmpVars, qryVars, chkVars, stVars, wrVars, dbVars,
  appVars, goneVars, ckVars, uplVars>>

ckOthers == <<feVars, uplVars>>

uplOthers == <<feVars, ckVars>>

(***************************************************************************)
(* LLM providers and retrieved contexts.                                   *)
(***************************************************************************)
Providers == {"openai", "anthropic", "ollama"}

\* what GET providers may answer: the providers configured in the deployment
ProviderLists ==
  {<<>>, <<"openai">>, <<"openai", "anthropic">>,
   <<"openai", "anthropic", "ollama">>}

\* the collection's chunks in the order the query ranks them
Ranking == [i \in 1..MaxCtx |-> i]

\* what a retrieval can return: the best n of them
Contexts == {SubSeq(Ranking, 1, n) : n \in 0..MaxCtx}

\* the token budgets a deployment can give its providers' prompts, counted in
\* the chunks that fit beside the question
TokenBudgets == [Providers -> 0..MaxCtx]

\* the text provider p generates; it names its author
AnswerOf(p) == <<"answer", p>>

ModelOf(p) == <<"model", p>>

(***************************************************************************)
(* RAG orchestrator, compare mode.                                         *)
(***************************************************************************)
NoRequest == [question |-> <<>>, providers |-> <<>>, top_k |-> NaN]

OrchIdle ==
  [phase |-> "idle", context |-> <<>>, retrievals |-> 0,
   budget |-> [p \in Providers |-> MaxCtx],
   call |-> [p \in Providers |-> "none"],
   callCtx |-> [p \in Providers |-> Null]]

Finished == {"ok", "error", "timeout"}

\* the ProviderAnswer slot of one provider call's outcome
ProviderAnswer(p, outcome) ==
  IF outcome = "ok"
  THEN [error |-> Null, answer |-> Some(AnswerOf(p)), model |-> Some(ModelOf(p))]
  ELSE [error |-> Some(IF outcome = "timeout" THEN "timeout" ELSE "provider error"),
        answer |-> Null, model |-> Null]

\* step 1 and 2 fail: the reply is an error
ErrorReply(msg) == [ok |-> FALSE, body |-> Null, message |-> msg]

OkReply(body) == [ok |-> TRUE, body |-> Some(body), message |-> ""]

\* the request is checked before any work begins
CompareRequestValid(req) ==
  /\ ~Blank(req.question)
  /\ Len(req.providers) > 0
  /\ TopKValid(req.top_k)

OrchReject ==
  /\ cmpHttp = "sent"
  /\ ~CompareRequestValid(cmpRequest)
  /\ cmpHttp' = "replied"
  /\ cmpReply' = Some(ErrorReply("validation error"))
  /\ UNCHANGED <<cmpProviders, cmpLoadingProviders, cmpSelected, cmpQuestion,
                 cmpTopK, cmpLoading, cmpError, cmpResponse, cmpRequest,
                 cmpAsked, cmpSettled, orch>>
  /\ UNCHANGED cmpOthers

\* step 1: retrieve, once; an empty result is not a failure
OrchRetrieve ==
  /\ cmpHttp = "sent"
  /\ CompareRequestValid(cmpRequest)
  /\ \E ctx \in Contexts, budget \in TokenBudgets :
       /\ Len(ctx) <= cmpRequest.top_k.val
       /\ \A p \in Providers \ SeqToSet(cmpRequest.providers) :
            budget[p] = MaxCtx
       /\ orch' = [orch EXCEPT !.phase = "retrieved", !.context = ctx,
                               !.budget = budget, !.retrievals = @ + 1]
  /\ cmpHttp' = "running"
  /\ UNCHANGED <<cmpProviders, cmpLoadingProviders, cmpSelected, cmpQuestion,
                 cmpTopK, cmpLoading, cmpError, cmpResponse, cmpRequest,
                 cmpReply, cmpAsked, cmpSettled>>
  /\ UNCHANGED cmpOthers

\* the retriever fails (unknown collection): the request fails as a whole
OrchRetrieveFails ==
  /\ cmpHttp = "sent"
  /\ CompareRequestValid(cmpRequest)
  /\ orch' = [orch EXCEPT !.phase = "failed", !.retrievals = @ + 1]
  /\ cmpHttp' = "replied"
  /\ cmpReply' = Some(ErrorReply("collection not found"))
  /\ UNCHANGED <<cmpProviders, cmpLoadingProviders, cmpSelected, cmpQuestion,
                 cmpTopK, cmpLoading, cmpError, cmpResponse, cmpRequest,
                 cmpAsked, cmpSettled>>
  /\ UNCHANGED cmpOthers

\* the providers whose generation call a dispatch step launches
DispatchLaunch(o, req) ==
  {p \in SeqToSet(req.providers) : o.call[p] = "none"}

\* the chunks of a context that fit a budget, the best-ranked dropped first
DropBestRanked(context, budget) ==
  IF Len(context) <= budget THEN context
  ELSE SubSeq(context, Len(context) - budget + 1, Len(context))

\* the chunks of a context that fit a budget: the lowest-ranked chunks are
\* dropped first, and a chunk is in or out as a whole
DropLowestRanked(context, budget) ==
  IF Len(context) <= budget THEN context ELSE SubSeq(context, 1, budget)

\* a call whose context block lost its best chunks to the budget
CallContextKeepsLowest(o, p) == DropBestRanked(o.context, o.budget[p])

\* step 2: the context block of provider p's prompt is the shared context,
\* truncated where it would exceed p's token budget
CallContext(o, p) == DropLowestRanked(o.context, o.budget[p])

\* step 3: one generation call per selected provider, none waiting on another
OrchDispatch ==
  /\ cmpHttp = "running"
  /\ orch.phase = "retrieved"
  /\ LET launch == DispatchLaunch(orch, cmpRequest)
     IN orch' = [orch EXCEPT
          !.phase = "dispatched",
          !.call = [p \in Providers |->
                      IF p \in launch THEN "running" ELSE @[p]],
          !.callCtx = [p \in Providers |->
                      IF p \in launch THEN Some(CallContext(orch, p)) ELSE @[p]]]
  /\ UNCHANGED <<cmpProviders, cmpLoadingProviders, cmpSelected, cmpQuestion,
                 cmpTopK, cmpLoading, cmpError, cmpResponse, cmpHttp,
                 cmpRequest, cmpReply, cmpAsked, cmpSettled>>
  /\ UNCHANGED cmpOthers

\* a provider's call ends: an answer, a ProviderError, or its own timeout
OrchProviderDone(p, outcome) ==
  /\ cmpHttp = "running"
  /\ orch.call[p] = "running"
  /\ orch' = [orch EXCEPT !.call[p] = outcome]
  /\ UNCHANGED <<cmpProviders, cmpLoadingProviders, cmpSelected, cmpQuestion,
                 cmpTopK, cmpLoading, cmpError, cmpResponse, cmpHttp,
                 cmpRequest, cmpReply, cmpAsked, cmpSettled>>
  /\ UNCHANGED cmpOthers

\* the join policy: when the orchestrator may aggregate
JoinReadyFirstSuccess(o, req) ==
  \E p \in SeqToSet(req.providers) : o.call[p] = "ok"

JoinReady(o, req) ==
  \A p \in SeqToSet(req.providers) : o.call[p] \in Finished

\* the CompareResult: provider name -> ProviderAnswer, in no order
CompareResult(o, req) ==
  [p \in {q \in SeqToSet(req.providers) : o.call[q] \in Finished} |->
     ProviderAnswer(p, o.call[p])]

\* step 4: {context, providers}
OrchAggregate ==
  /\ cmpHttp = "running"
  /\ orch.phase = "dispatched"
  /\ JoinReady(orch, cmpRequest)
  /\ orch' = [orch EXCEPT !.phase = "done"]
  /\ cmpHttp' = "replied"
  /\ cmpReply' = Some(OkReply([context |-> orch.context,
                               providers |-> CompareResult(orch, cmpRequest)]))
  /\ UNCHANGED <<cmpProviders, cmpLoadingProviders, cmpSelected, cmpQuestion,
                 cmpTopK, cmpLoading, cmpError, cmpResponse, cmpRequest,
                 cmpAsked, cmpSettled>>
  /\ UNCHANGED cmpOthers

(***************************************************************************)
(* RAGCompare component.                                                   *)
(***************************************************************************)
\* the form is rendered: providers are loaded and there are at least two
CmpFormShown == ~cmpLoadingProviders /\ Len(cmpProviders) >= 2

\* the Compare button's disabled attribute
CmpSubmitDisabled ==
  cmpLoading \/ Blank(cmpQuestion) \/ Len(cmpSelected) = 0

\* loadProviders, after getAvailableProviders resolves
CmpLoadProvidersResolve(list) ==
  /\ cmpLoadingProviders
  /\ cmpProviders' = list
  /\ cmpSelected' = list
  /\ cmpLoadingProviders' = FALSE
  /\ UNCHANGED <<cmpQuestion, cmpTopK, cmpLoading, cmpError, cmpResponse,
                 cmpHttp, cmpRequest, cmpReply, cmpAsked, cmpSettled, orch>>
  /\ UNCHANGED cmpOthers

\* loadProviders, after getAvailableProviders rejects
CmpLoadProvidersReject(failure) ==
  /\ cmpLoadingProviders
  /\ cmpError' = Some(MessageOf(Intercepted(failure),
                                "Failed to load providers"))
  /\ cmpLoadingProviders' = FALSE
  /\ UNCHANGED <<cmpProviders, cmpSelected, cmpQuestion, cmpTopK, cmpLoading,
                 cmpResponse, cmpHttp, cmpRequest, cmpReply, cmpAsked,
                 cmpSettled, orch>>
  /\ UNCHANGED cmpOthers

CmpSetQuestion(t) ==
  /\ CmpFormShown /\ ~cmpLoading
  /\ cmpQuestion' = t
  /\ UNCHANGED <<cmpProviders, cmpLoadingProviders, cmpSelected, cmpTopK,
                 cmpLoading, cmpError, cmpResponse, cmpHttp, cmpRequest,
                 cmpReply, cmpAsked, cmpSettled, orch>>
  /\ UNCHANGED cmpOthers

CmpSetTopK(x) ==
  /\ CmpFormShown /\ ~cmpLoading
  /\ cmpTopK' = x
  /\ UNCHANGED <<cmpProviders, cmpLoadingProviders, cmpSelected, cmpQuestion,
                 cmpLoading, cmpError, cmpResponse, cmpHttp, cmpRequest,
                 cmpReply, cmpAsked, cmpSettled, orch>>
  /\ UNCHANGED cmpOthers

toggleProvider(provider) ==
  /\ CmpFormShown /\ ~cmpLoading
  /\ Includes(cmpProviders, provider)
  /\ cmpSelected' =
       IF Includes(cmpSelected, provider)
       THEN Without(cmpSelected, provider)
       ELSE cmpSelected \o <<provider>>
  /\ UNCHANGED <<cmpProviders, cmpLoadingProviders, cmpQuestion, cmpTopK,
                 cmpLoading, cmpError, cmpResponse, cmpHttp, cmpRequest,
                 cmpReply, cmpAsked, cmpSettled, orch>>
  /\ UNCHANGED cmpOthers

\* the RAGCompareRequest that handleSubmit builds
CompareRequestFirstOnly ==
  [question |-> Trim(cmpQuestion), providers |-> SubSeq(cmpSelected, 1, 1),
   top_k |-> cmpTopK]

CompareRequest ==
  [question |-> Trim(cmpQuestion), providers |-> cmpSelected,
   top_k |-> cmpTopK]

\* handleSubmit up to its await.  The submit event needs the button enabled
\* and every number box within its min and max.
CmpSubmit ==
  /\ CmpFormShown
  /\ ~CmpSubmitDisabled
  /\ RangeOk(cmpTopK, TopKMin, TopKMax)
  /\ IF Blank(cmpQuestion)
     THEN /\ cmpError' = Some("Please enter a question")
          /\ UNCHANGED <<cmpLoading, cmpResponse, cmpHttp, cmpRequest,
                         cmpReply, cmpAsked, cmpSettled, orch>>
     ELSE IF Len(cmpSelected) = 0
     THEN /\ cmpError' = Some("Please select at least one provider")
          /\ UNCHANGED <<cmpLoading, cmpResponse, cmpHttp, cmpRequest,
                         cmpReply, cmpAsked, cmpSettled, orch>>
     ELSE /\ cmpLoading' = TRUE
          /\ cmpError' = Null
          /\ cmpResponse' = Null
          /\ cmpRequest' = CompareRequest
          /\ cmpHttp' = "sent"
          /\ cmpReply' = Null
          /\ cmpAsked' = cmpSelected
          /\ cmpSettled' = 0
          /\ orch' = OrchIdle
  /\ UNCHANGED <<cmpProviders, cmpLoadingProviders, cmpSelected, cmpQuestion,
                 cmpTopK>>
  /\ UNCHANGED cmpOthers

\* await ragCompare(request) resolves: setResponse(result); finally
CmpResolve ==
  /\ cmpHttp = "replied"
  /\ Val(cmpReply).ok
  /\ cmpResponse' = Val(cmpReply).body
  /\ cmpLoading' = FALSE
  /\ cmpHttp' = "none"
  /\ cmpRequest' = NoRequest
  /\ cmpReply' = Null
  /\ orch' = OrchIdle
  /\ cmpSettled' = cmpSettled + 1
  /\ UNCHANGED <<cmpProviders, cmpLoadingProviders, cmpSelected, cmpQuestion,
                 cmpTopK, cmpError, cmpAsked>>
  /\ UNCHANGED cmpOthers

\* await ragCompare(request) rejects with the back end's error: catch; finally
CmpReject ==
  /\ cmpHttp = "replied"
  /\ ~Val(cmpReply).ok
  /\ cmpError' = Some(MessageOf(Intercepted(HttpError(Val(cmpReply).message)),
                                "Comparison failed"))
  /\ cmpLoading' = FALSE
  /\ cmpHttp' = "none"
  /\ cmpRequest' = NoRequest
  /\ cmpReply' = Null
  /\ orch' = OrchIdle
  /\ cmpSettled' = cmpSettled + 1
  /\ UNCHANGED <<cmpProviders, cmpLoadingProviders, cmpSelected, cmpQuestion,
                 cmpTopK, cmpResponse, cmpAsked>>
  /\ UNCHANGED cmpOthers

\* the request or its reply is lost on the network: catch; finally
CmpNetworkError ==
  /\ cmpHttp \in {"sent", "replied"}
  /\ cmpError' = Some(MessageOf(Intercepted(NetworkDown), "Comparison failed"))
  /\ cmpLoading' = FALSE
  /\ cmpHttp' = "none"
  /\ cmpRequest' = NoRequest
  /\ cmpReply' = Null
  /\ orch' = OrchIdle
  /\ cmpSettled' = cmpSettled + 1
  /\ UNCHANGED <<cmpProviders, cmpLoadingProviders, cmpSelected, cmpQuestion,
                 cmpTopK, cmpResponse, cmpAsked>>
  /\ UNCHANGED cmpOthers

\* one card per entry of response.providers: the error, or else the answer
ProviderCard(name, result) ==
  IF Truthy(result.error)
  THEN [provider |-> name, shows |-> "error", text |-> <<Val(result.error)>>]
  ELSE [provider |-> name, shows |-> "answer", text |-> result.answer]

ProviderCards ==
  IF IsNull(cmpResponse) THEN {}
  ELSE {ProviderCard(p, Val(cmpResponse).providers[p]) :
          p \in DOMAIN Val(cmpResponse).providers}

CmpInit ==
  /\ cmpProviders = <<>>
  /\ cmpLoadingProviders = TRUE
  /\ cmpSelected = <<>>
  /\ cmpQuestion = <<>>
  /\ cmpTopK = Num(TopKDefault)
  /\ cmpLoading = FALSE
  /\ cmpError = Null
  /\ cmpResponse = Null
  /\ cmpHttp = "none"
  /\ cmpRequest = NoRequest
  /\ cmpReply = Null
  /\ cmpAsked = <<>>
  /\ cmpSettled = 0
  /\ orch = OrchIdle

NextCompare ==
  \/ \E list \in ProviderLists : CmpLoadProvidersResolve(list)
  \/ \E failure \in Failures : CmpLoadProvidersReject(failure)
  \/ \E t \in Texts : CmpSetQuestion(t)
  \/ \E x \in TopKTyped : CmpSetTopK(x)
  \/ \E p \in Providers : toggleProvider(p)
  \/ CmpSubmit
  \/ OrchReject
  \/ OrchRetrieve
  \/ OrchRetrieveFails
  \/ OrchDispatch
  \/ \E p \in Providers, outcome \in Finished : OrchProviderDone(p, outcome)
  \/ OrchAggregate
  \/ CmpResolve
  \/ CmpReject
  \/ CmpNetworkError



(***************************************************************************)
(* Properties of the compare request.                                      *)
(***************************************************************************)
\* a ProviderAnswer is either an error with no answer or an answer with none
SlotWellFormed(p, slot) ==
  \/ ~IsNull(slot.error) /\ IsNull(slot.answer)
  \/ IsNull(slot.error) /\ slot.answer = Some(AnswerOf(p))

\* C1: the comparison result has exactly one entry per selected provider,
\* keyed by its name; a failed provider's entry has an error and no answer,
\* every other entry carries that provider's own answer, each is shown as
\* one card, and a provider's failure never fails the request as a whole.
C1_OneEntryPerProvider ==
  /\ ~IsNull(cmpResponse) =>
       /\ DOMAIN Val(cmpResponse).providers = SeqToSet(cmpAsked)
       /\ \A p \in DOMAIN Val(cmpResponse).providers :
            SlotWellFormed(p, Val(cmpResponse).providers[p])
       /\ \A p \in SeqToSet(cmpAsked) :
            \E c \in ProviderCards :
              /\ c.provider = p
              /\ c.shows = IF IsNull(Val(cmpResponse).providers[p].error)
                           THEN "answer" ELSE "error"
       /\ Cardinality(ProviderCards) = Cardinality(SeqToSet(cmpAsked))
  /\ (cmpHttp = "replied" /\ orch.phase = "done") =>
       /\ Val(cmpReply).ok
       /\ \A p \in SeqToSet(cmpAsked) :
            /\ p \in DOMAIN Val(Val(cmpReply).body).providers
            /\ IsNull(Val(Val(cmpReply).body).providers[p].error)
                 <=> orch.call[p] = "ok"

\* a comparison is held in which one provider failed and another answered
C1_Witness ==
  /\ ~IsNull(cmpResponse)
  /\ \E p, q \in SeqToSet(cmpAsked) :
       /\ ~IsNull(Val(cmpResponse).providers[p].error)
       /\ ~IsNull(Val(cmpResponse).providers[q].answer)

\* C2: all provider calls of a comparison are launched without waiting on
\* each other, the aggregate is delivered only when every one of them has
\* finished or timed out, and a request settles with one single result.
C2_WaitForAll ==
  /\ orch.phase \in {"dispatched", "done"} =>
       \A p \in SeqToSet(cmpRequest.providers) : orch.call[p] # "none"
  /\ (cmpHttp = "replied" /\ Val(cmpReply).ok) =>
       \A p \in SeqToSet(cmpRequest.providers) : orch.call[p] \in Finished
  /\ cmpSettled <= 1
  /\ (~IsNull(cmpResponse) /\ ~cmpLoading) => cmpSettled = 1

\* one provider has finished with an answer while another is still running
C2_Witness ==
  /\ orch.phase = "dispatched"
  /\ \E p, q \in SeqToSet(cmpRequest.providers) :
       orch.call[p] = "ok" /\ orch.call[q] = "running"

\* a is b or what is left of b when chunks are taken off its end
IsPrefix(a, b) == Len(a) <= Len(b) /\ a = SubSeq(b, 1, Len(a))

\* C3: retrieval runs exactly once per comparison, and every provider's call
\* is given the context of that one retrieval, cut to the provider's token
\* budget: the call's context is the shared context when that fits the
\* budget, and otherwise its best-ranked chunks, as many whole chunks as the
\* budget holds; the response carries the one shared context.
C3_SharedContext ==
  /\ orch.phase \in {"retrieved", "dispatched", "done"} => orch.retrievals = 1
  /\ orch.retrievals <= 1
  /\ \A p \in Providers :
       orch.call[p] # "none" =>
         /\ ~IsNull(orch.callCtx[p])
         /\ IsPrefix(Val(orch.callCtx[p]), orch.context)
         /\ Len(orch.context) <= orch.budget[p] =>
              Val(orch.callCtx[p]) = orch.context
         /\ Len(orch.context) > orch.budget[p] =>
              Len(Val(orch.callCtx[p])) = orch.budget[p]
  /\ (cmpHttp = "replied" /\ Val(cmpReply).ok) =>
       Val(Val(cmpReply).body).context = orch.context

\* a reply over two providers' calls with a context of more than one chunk,
\* which one call was given whole and the other cut to its best chunk
C3_Witness ==
  /\ cmpHttp = "replied"
  /\ Val(cmpReply).ok
  /\ Len(orch.context) >= 2
  /\ \E p, q \in Providers :
       /\ orch.call[p] \in Finished /\ orch.call[q] \in Finished
       /\ orch.callCtx[p] = Some(orch.context)
       /\ orch.callCtx[q] = Some(SubSeq(orch.context, 1, 1))

\* retrieval runs exactly once per comparison, every provider's call is given
\* the very same context, whatever its budget, and the response carries it
C3_SameContextForAll ==
  /\ orch.phase \in {"retrieved", "dispatched", "done"} => orch.retrievals = 1
  /\ orch.retrievals <= 1
  /\ \A p \in Providers :
       orch.call[p] # "none" => orch.callCtx[p] = Some(orch.context)
  /\ (cmpHttp = "replied" /\ Val(cmpReply).ok) =>
       Val(Val(cmpReply).body).context = orch.context

\* the form's input is acceptable to the orchestrator
CmpInputValid ==
  /\ ~Blank(cmpQuestion)
  /\ Len(cmpSelected) > 0
  /\ TopKValid(cmpTopK)

\* C7: invalid input (a blank question, no provider, a top_k out of range) is
\* rejected with an error before any work: no request goes to the back end
\* and the result held before stays as it was.
C7_RejectedBeforeWork ==
  [][(CmpSubmit /\ ~CmpInputValid) =>
       /\ cmpHttp' = "none"
       /\ cmpResponse' = cmpResponse
       /\ ~IsNull(cmpError')]_vars

\* C19: no compare request is sent with fewer than 2 providers in its
\* providers list.
C19_AtLeastTwoProviders ==
  [][CmpSubmit => (cmpRequest' # cmpRequest => Len(cmpRequest'.providers) >= 2)]_vars

(***************************************************************************)
(* RAG orchestrator, single-provider mode.                                 *)
(***************************************************************************)
NoQuery == [question |-> <<>>, provider |-> ""]

\* the error reply of a failed generation: the ProviderError, with the
\* retrieval context obtained so far attached
ProviderErrorReply(msg, ctx) ==
  [ok |-> FALSE, body |-> Null, message |-> msg, context |-> Some(ctx)]

\* an error reply that carries no context
PlainErrorReply(msg) ==
  [ok |-> FALSE, body |-> Null, message |-> msg, context |-> Null]

QueryOkReply(body) ==
  [ok |-> TRUE, body |-> Some(body), message |-> "", context |-> Null]

\* step 1: retrieve
QryOrchRetrieve ==
  /\ qryHttp = "sent"
  /\ \E ctx \in Contexts : qryContext' = Some(ctx)
  /\ qryHttp' = "running"
  /\ UNCHANGED <<qryProviders, qryLoadingProviders, qryProvider, qryQuestion,
                 qryLoading, qryError, qryResponse, qryRequest, qryReply>>
  /\ UNCHANGED qryOthers

\* the retriever fails: no context was obtained
QryOrchRetrieveFails ==
  /\ qryHttp = "sent"
  /\ qryHttp' = "replied"
  /\ qryReply' = Some(PlainErrorReply("collection not found"))
  /\ UNCHANGED <<qryProviders, qryLoadingProviders, qryProvider, qryQuestion,
                 qryLoading, qryError, qryResponse, qryRequest, qryContext>>
  /\ UNCHANGED qryOthers

\* step 3, one generation call: its failure is the request's failure
QryOrchGenerate(outcome) ==
  /\ qryHttp = "running"
  /\ qryHttp' = "replied"
  /\ qryReply' =
       IF outcome = "ok"
       THEN Some(QueryOkReply([answer |-> AnswerOf(qryRequest.provider),
                               provider |-> qryRequest.provider,
                               context |-> Val(qryContext)]))
       ELSE Some(ProviderErrorReply(
                   IF outcome = "timeout" THEN "timeout" ELSE "provider error",
                   Val(qryContext)))
  /\ UNCHANGED <<qryProviders, qryLoadingProviders, qryProvider, qryQuestion,
                 qryLoading, qryError, qryResponse, qryRequest, qryContext>>
  /\ UNCHANGED qryOthers

(***************************************************************************)
(* RAGQuery component.                                                     *)
(***************************************************************************)
\* the form is rendered: providers are loaded and there is at least one
QryFormShown == ~qryLoadingProviders /\ Len(qryProviders) > 0

\* the Ask button's disabled attribute
QrySubmitDisabled == qryLoading \/ Blank(qryQuestion) \/ qryProvider = ""

\* loadProviders, after getAvailableProviders resolves
QryLoadProvidersResolve(list) ==
  /\ qryLoadingProviders
  /\ qryProviders' = list
  /\ qryProvider' = IF Len(list) > 0 THEN list[1] ELSE qryProvider
  /\ qryLoadingProviders' = FALSE
  /\ UNCHANGED <<qryQuestion, qryLoading, qryError, qryResponse, qryHttp,
                 qryRequest, qryReply, qryContext>>
  /\ UNCHANGED qryOthers

\* loadProviders, after getAvailableProviders rejects
QryLoadProvidersReject(failure) ==
  /\ qryLoadingProviders
  /\ qryError' = Some(MessageOf(Intercepted(failure),
                                "Failed to load providers"))
  /\ qryLoadingProviders' = FALSE
  /\ UNCHANGED <<qryProviders, qryProvider, qryQuestion, qryLoading,
                 qryResponse, qryHttp, qryRequest, qryReply, qryContext>>
  /\ UNCHANGED qryOthers

QrySetQuestion(t) ==
  /\ QryFormShown /\ ~qryLoading
  /\ qryQuestion' = t
  /\ UNCHANGED <<qryProviders, qryLoadingProviders, qryProvider, qryLoading,
                 qryError, qryResponse, qryHttp, qryRequest, qryReply,
                 qryContext>>
  /\ UNCHANGED qryOthers

QrySetProvider(p) ==
  /\ QryFormShown /\ ~qryLoading
  /\ Includes(qryProviders, p)
  /\ qryProvider' = p
  /\ UNCHANGED <<qryProviders, qryLoadingProviders, qryQuestion, qryLoading,
                 qryError, qryResponse, qryHttp, qryRequest, qryReply,
                 qryContext>>
  /\ UNCHANGED qryOthers

\* the RAGQueryRequest that handleSubmit builds
QueryRequest == [question |-> Trim(qryQuestion), provider |-> qryProvider]

\* handleSubmit up to its await
QrySubmit ==
  /\ QryFormShown
  /\ ~QrySubmitDisabled
  /\ IF Blank(qryQuestion)
     THEN /\ qryError' = Some("Please enter a question")
          /\ UNCHANGED <<qryLoading, qryResponse, qryHttp, qryRequest,
                         qryReply, qryContext>>
     ELSE IF qryProvider = ""
     THEN /\ qryError' = Some("Please select a provider")
          /\ UNCHANGED <<qryLoading, qryResponse, qryHttp, qryRequest,
                         qryReply, qryContext>>
     ELSE /\ qryLoading' = TRUE
          /\ qryError' = Null
          /\ qryResponse' = Null
          /\ qryRequest' = QueryRequest
          /\ qryHttp' = "sent"
          /\ qryReply' = Null
          /\ qryContext' = Null
  /\ UNCHANGED <<qryProviders, qryLoadingProviders, qryProvider, qryQuestion>>
  /\ UNCHANGED qryOthers

\* await ragQuery(request) resolves: setResponse(result); finally
QryResolve ==
  /\ qryHttp = "replied"
  /\ Val(qryReply).ok
  /\ qryResponse' = Val(qryReply).body
  /\ qryLoading' = FALSE
  /\ qryHttp' = "none"
  /\ qryRequest' = NoQuery
  /\ qryReply' = Null
  /\ qryContext' = Null
  /\ UNCHANGED <<qryProviders, qryLoadingProviders, qryProvider, qryQuestion,
                 qryError>>
  /\ UNCHANGED qryOthers

\* await ragQuery(request) rejects with the back end's error: catch; finally
QryReject ==
  /\ qryHttp = "replied"
  /\ ~Val(qryReply).ok
  /\ qryError' = Some(MessageOf(Intercepted(HttpError(Val(qryReply).message)),
                                "Query failed"))
  /\ qryLoading' = FALSE
  /\ qryHttp' = "none"
  /\ qryRequest' = NoQuery
  /\ qryReply' = Null
  /\ qryContext' = Null
  /\ UNCHANGED <<qryProviders, qryLoadingProviders, qryProvider, qryQuestion,
                 qryResponse>>
  /\ UNCHANGED qryOthers

\* the request or its reply is lost on the network: catch; finally
QryNetworkError ==
  /\ qryHttp \in {"sent", "replied"}
  /\ qryError' = Some(MessageOf(Intercepted(NetworkDown), "Query failed"))
  /\ qryLoading' = FALSE
  /\ qryHttp' = "none"
  /\ qryRequest' = NoQuery
  /\ qryReply' = Null
  /\ qryContext' = Null
  /\ UNCHANGED <<qryProviders, qryLoadingProviders, qryProvider, qryQuestion,
                 qryResponse>>
  /\ UNCHANGED qryOthers

\* the reply to a request whose RAGQuery has been unmounted arrives, or the
\* request fails: no state is set
QryOrphanSettled(request) ==
  /\ request \in BagToSet(qryOrphans)
  /\ qryOrphans' = Take(qryOrphans, request)
  /\ UNCHANGED <<cmpVars, qryVars, chkVars, stVars, wrVars, dbVars, srchVars,
                 appVars, embOrphans, vsOrphans, ckVars, uplVars>>

\* the retrieval context the component holds for the user to open
QryShownContext ==
  IF IsNull(qryResponse) THEN Null ELSE Some(Val(qryResponse).context)

\* RAGQuery is mounted: the initial values of its state, and its effect has
\* called loadProviders
QryMount ==
  /\ qryProviders' = <<>>
  /\ qryLoadingProviders' = TRUE
  /\ qryProvider' = ""
  /\ qryQuestion' = <<>>
  /\ qryLoading' = FALSE
  /\ qryError' = Null
  /\ qryResponse' = Null
  /\ qryHttp' = "none"
  /\ qryRequest' = NoQuery
  /\ qryReply' = Null
  /\ qryContext' = Null

QryInit ==
  /\ qryOrphans = EmptyBag
  /\ qryProviders = <<>>
  /\ qryLoadingProviders = TRUE
  /\ qryProvider = ""
  /\ qryQuestion = <<>>
  /\ qryLoading = FALSE
  /\ qryError = Null
  /\ qryResponse = Null
  /\ qryHttp = "none"
  /\ qryRequest = NoQuery
  /\ qryReply = Null
  /\ qryContext = Null

NextQuery ==
  \/ \E list \in ProviderLists : QryLoadProvidersResolve(list)
  \/ \E failure \in Failures : QryLoadProvidersReject(failure)
  \/ \E t \in Texts : QrySetQuestion(t)
  \/ \E p \in Providers : QrySetProvider(p)
  \/ QrySubmit
  \/ QryOrchRetrieve
  \/ QryOrchRetrieveFails
  \/ \E outcome \in Finished : QryOrchGenerate(outcome)
  \/ QryResolve
  \/ QryReject
  \/ QryNetworkError

\* C4: in single-provider mode a failed generation call fails the request,
\* and the failure reaches the caller together with the retrieval context
\* already obtained: the context is still at hand after the failure.
C4_FailureKeepsContext ==
  [][(QryReject /\ ~IsNull(Val(qryReply).context)) =>
       /\ ~IsNull(qryError')
       /\ QryShownContext' = Val(qryReply).context]_vars

(***************************************************************************)
(* MultiDocumentChunking component.                                        *)
(***************************************************************************)
MaxDocs == 2

ChunkSizeMin == 100
ChunkSizeMax == 2000
ChunkSizeDefault == 500
OverlapMin == 0
OverlapMax == 500
OverlapDefault == 50

\* the strategy buttons
Strategies == {"fixed", "recursive", "sentence", "semantic", "sliding_window"}

StrategyDefault == "fixed"

\* positions of the two range sliders: both ends and the default
ChunkSizes == {ChunkSizeMin, ChunkSizeDefault, ChunkSizeMax}

Overlaps == {OverlapMin, OverlapDefault, OverlapMax}

\* the documents prop: the first n documents of the list are selected
DocumentLists == {[i \in 1..n |-> i] : n \in 0..MaxDocs}

\* a run holds what handleChunkAll closed over when the button was pressed
\* (documents, strategy, chunkSize, overlap, and through onChunkingComplete
\* the App's chunkResults) and its local status map
NoRun ==
  [docs |-> <<>>, at |-> 0, wire |-> Null, closure |-> {},
   strategy |-> StrategyDefault, size |-> 0, overlap |-> 0, status |-> <<>>]

\* the ChunkRequest of chunkDocument({...})
ChunkRequest(run, doc) ==
  [document_id |-> doc, strategy |-> run.strategy, chunk_size |-> run.size,
   overlap |-> run.overlap]

\* the Chunker's contract on its parameters
ChunkParamsValid(req) ==
  req.chunk_size > 0 /\ 0 <= req.overlap /\ req.overlap < req.chunk_size

ChkSetDocuments(docs) ==
  /\ chkDocuments' = docs
  /\ UNCHANGED <<chkStrategy, chkSize, chkOverlap, chkIsChunking, chkStatus, chkError,
                 chkRun, appChunkResults, appEmbeddingResult, embOutdated,
                 appError>>
  /\ UNCHANGED chkOthers

\* a strategy button; it is disabled during a run
ChkSetStrategy(strat) ==
  /\ ~chkIsChunking
  /\ chkStrategy' = strat
  /\ UNCHANGED <<chkDocuments, chkSize, chkOverlap, chkIsChunking, chkStatus,
                 chkError, chkRun, appChunkResults, appEmbeddingResult,
                 embOutdated, appError>>
  /\ UNCHANGED chkOthers

ChkSetChunkSize(v) ==
  /\ ~chkIsChunking
  /\ chkSize' = v
  /\ UNCHANGED <<chkDocuments, chkStrategy, chkOverlap, chkIsChunking,
                 chkStatus, chkError, chkRun, appChunkResults,
                 appEmbeddingResult, embOutdated, appError>>
  /\ UNCHANGED chkOthers

ChkSetOverlap(v) ==
  /\ ~chkIsChunking
  /\ chkOverlap' = v
  /\ UNCHANGED <<chkDocuments, chkStrategy, chkSize, chkIsChunking, chkStatus, chkError,
                 chkRun, appChunkResults, appEmbeddingResult, embOutdated,
                 appError>>
  /\ UNCHANGED chkOthers

\* the run as it enters the loop's turn for the document at position i:
\* that document becomes 'processing' and its request is sent
Turn(status, run, i) ==
  [run EXCEPT
     !.at = i,
     !.wire = Some(ChunkRequest(run, run.docs[i])),
     !.status = [status EXCEPT ![run.docs[i]] = "processing"]]

\* the loop's next turn, or the loop is over; setChunkingStatus and
\* setIsChunking show the run's status map in the component
LoopTurn(status, run, i) ==
  IF i <= Len(run.docs)
  THEN /\ chkRun' = Turn(status, run, i)
       /\ chkStatus' = Turn(status, run, i).status
       /\ chkIsChunking' = TRUE
  ELSE /\ chkRun' = NoRun
       /\ chkStatus' = status
       /\ chkIsChunking' = FALSE

\* handleChunkAll up to its first await; the button is enabled
handleChunkAll ==
  /\ Len(chkDocuments) # 0 /\ ~chkIsChunking
  /\ chkError' = Null
  /\ LoopTurn([d \in SeqToSet(chkDocuments) |-> "pending"],
              [docs |-> chkDocuments, at |-> 0, wire |-> Null,
               closure |-> appChunkResults, strategy |-> chkStrategy,
               size |-> chkSize,
               overlap |-> chkOverlap, status |-> <<>>], 1)
  /\ UNCHANGED <<chkDocuments, chkStrategy, chkSize, chkOverlap, appChunkResults,
                 appEmbeddingResult, embOutdated, appError>>
  /\ UNCHANGED chkOthers

\* handleChunkingComplete, as the run's onChunkingComplete closed over it:
\* the new chunkResults; it clears embeddingResult and error as well
handleChunkingComplete(closure, documentId) == closure \cup {documentId}

\* the embedding requests of unmounted components, a chunking completion
\* recorded
Recorded(o) == [o EXCEPT !.outdated = TRUE]

Outdated(orphans) == BagOfAll(Recorded, orphans)

\* await chunkDocument(...) resolves; the Chunker accepted the parameters
ChkDocResolved ==
  /\ ~IsNull(chkRun.wire)
  /\ ChunkParamsValid(Val(chkRun.wire))
  /\ appChunkResults' =
       handleChunkingComplete(chkRun.closure, chkRun.docs[chkRun.at])
  /\ appEmbeddingResult' = Null
  /\ embOutdated' = ~IsNull(embWire)
  /\ embOrphans' = Outdated(embOrphans)
  /\ appError' = Null
  /\ LoopTurn([chkRun.status EXCEPT ![chkRun.docs[chkRun.at]] = "success"],
              chkRun, chkRun.at + 1)
  /\ UNCHANGED <<chkDocuments, chkStrategy, chkSize, chkOverlap, chkError>>
  /\ UNCHANGED <<cmpVars, qryVars, stVars, wrVars, dbVars, srchVars, appVars,
                 qryOrphans, vsOrphans, ckVars, uplVars>>

\* a run that gives up at the first request that fails
ChkDocRejectedAborts ==
  /\ ~IsNull(chkRun.wire)
  /\ chkRun' = NoRun
  /\ chkStatus' = [chkRun.status EXCEPT ![chkRun.docs[chkRun.at]] = "error"]
  /\ chkIsChunking' = FALSE
  /\ UNCHANGED <<chkDocuments, chkStrategy, chkSize, chkOverlap, chkError, appChunkResults,
                 appEmbeddingResult, embOutdated, appError>>
  /\ UNCHANGED chkOthers

\* await chunkDocument(...) rejects: catch
ChkDocRejected ==
  /\ ~IsNull(chkRun.wire)
  /\ LoopTurn([chkRun.status EXCEPT ![chkRun.docs[chkRun.at]] = "error"],
              chkRun, chkRun.at + 1)
  /\ UNCHANGED <<chkDocuments, chkStrategy, chkSize, chkOverlap, chkError, appChunkResults,
                 appEmbeddingResult, embOutdated, appError>>
  /\ UNCHANGED chkOthers

ChkInit ==
  /\ embOrphans = EmptyBag
  /\ chkDocuments = <<>>
  /\ chkStrategy = StrategyDefault
  /\ chkSize = ChunkSizeDefault
  /\ chkOverlap = OverlapDefault
  /\ chkIsChunking = FALSE
  /\ chkStatus = <<>>
  /\ chkError = Null
  /\ chkRun = NoRun
  /\ appChunkResults = {}
  /\ appEmbeddingResult = Null
  /\ embOutdated = FALSE
  /\ appError = Null

NextChunk ==
  \/ \E docs \in DocumentLists : ChkSetDocuments(docs)
  \/ \E strat \in Strategies : ChkSetStrategy(strat)
  \/ \E v \in ChunkSizes : ChkSetChunkSize(v)
  \/ \E v \in Overlaps : ChkSetOverlap(v)
  \/ handleChunkAll
  \/ ChkDocResolved
  \/ ChkDocRejected

\* C6: every chunk request that is issued has chunk_size > 0 and
\* 0 <= overlap < chunk_size, whatever the positions of the two sliders.
C6_RequestsWellFormed ==
  ~IsNull(chkRun.wire) => ChunkParamsValid(Val(chkRun.wire))

\* the documents whose chunk request a run has on the wire
InFlight(run) ==
  IF IsNull(run.wire) THEN {} ELSE {Val(run.wire).document_id}

\* C15: Generate Chunks over several documents processes them in parallel:
\* once the run has started, the chunk requests of at least two of its
\* documents are on the wire at the same time.
C15_ParallelRequests ==
  [][(handleChunkAll /\ Cardinality(SeqToSet(chkDocuments)) >= 2) =>
       Cardinality(InFlight(chkRun')) >= 2]_vars

\* the documents a status map shows as chunked
Succeeded(status) == {d \in DOMAIN status : status[d] = "success"}

\* C20: when a Generate Chunks run over the selected documents D ends,
\* chunkResults holds an entry for every document of D whose chunk request
\* succeeded, and every entry it held when the run began for a document
\* outside D is still there.
C20_ResultsPerDocument ==
  [][(chkRun # NoRun /\ chkRun' = NoRun) =>
       /\ Succeeded(chkStatus') \subseteq appChunkResults'
       /\ (chkRun.closure \ SeqToSet(chkRun.docs)) \subseteq appChunkResults']_vars

\* the moves of one document's status
StatusMove(from, to) ==
  \/ from = to
  \/ from = "pending" /\ to = "processing"
  \/ from = "processing" /\ to \in {"success", "error"}

Processing(status) == {d \in DOMAIN status : status[d] = "processing"}

\* C25: in a Generate Chunks run a chunk request that fails marks its
\* document 'error', marks no other document 'error', and the run goes on
\* with the next document; a document's status only moves pending ->
\* processing -> success or error; at most one document is 'processing';
\* when the run ends every document of the run is 'success' or 'error' and
\* isChunking is false.
C25_RunStatuses ==
  [][/\ ChkDocRejected =>
          /\ chkStatus'[chkRun.docs[chkRun.at]] = "error"
          /\ \A d \in DOMAIN chkStatus' \ {chkRun.docs[chkRun.at]} :
               chkStatus'[d] = "error" => chkStatus[d] = "error"
          /\ chkRun.at < Len(chkRun.docs) =>
               InFlight(chkRun') = {chkRun.docs[chkRun.at + 1]}
     /\ ~handleChunkAll =>
          \A d \in DOMAIN chkStatus \cap DOMAIN chkStatus' :
            StatusMove(chkStatus[d], chkStatus'[d])
     /\ Cardinality(Processing(chkStatus')) <= 1
     /\ (chkRun # NoRun /\ chkRun' = NoRun) =>
          /\ \A d \in SeqToSet(chkRun.docs) :
               chkStatus'[d] \in {"success", "error"}
          /\ ~chkIsChunking']_vars

\* a run has ended in which the first document failed and the second one
\* was chunked
C25_Witness ==
  /\ chkRun = NoRun /\ ~chkIsChunking
  /\ DOMAIN chkStatus = {1, 2}
  /\ chkStatus[1] = "error" /\ chkStatus[2] = "success"

(***************************************************************************)
(* VectorStore: one contract, two back ends.                               *)
(***************************************************************************)
MaxIds == 2
MaxBatch == 2

TfidfDim == 1000
DenseDim == 384

ModelTypes == {"tfidf", "sentence_transformer"}

\* the dimension of a model's vectors
DimOf(m) == IF m = "tfidf" THEN TfidfDim ELSE DenseDim

\* a CollectionEntry: its id, its vector's dimension, metadata.model_name
Entry(id, m) == [id |-> id, dim |-> DimOf(m), model |-> m]

Entries == {Entry(id, m) : id \in 1..MaxIds, m \in ModelTypes}

\* the entries of one upsert call, ids ascending
EntryBatches ==
  UNION {{es \in [1..k -> Entries] :
            \A i \in 1..k, j \in 1..k : i < j => es[i].id < es[j].id} :
         k \in 1..MaxBatch}

Slots == Backends \X CollectionsTyped

\* the dimension a collection is established at: its own, or on first use
\* that of the first entry
EstablishedDim(coll, es) ==
  IF IsNull(coll) THEN es[1].dim ELSE Val(coll).dim

DimMismatch(coll, es) ==
  \E i \in 1..Len(es) : es[i].dim # EstablishedDim(coll, es)

\* entries written one after the other; an id already there is overwritten
RECURSIVE WriteAll(_, _)
WriteAll(entries, es) ==
  IF es = <<>> THEN entries
  ELSE WriteAll([id \in DOMAIN entries \cup {Head(es).id} |->
                   IF id = Head(es).id THEN Head(es).model ELSE entries[id]],
                Tail(es))

EntriesOf(coll) == IF IsNull(coll) THEN <<>> ELSE Val(coll).entries

Count(coll) == Cardinality(DOMAIN EntriesOf(coll))

\* the longest prefix of es that agrees with dimension d
RECURSIVE MatchingPrefix(_, _)
MatchingPrefix(es, d) ==
  IF es = <<>> \/ Head(es).dim # d THEN <<>>
  ELSE <<Head(es)>> \o MatchingPrefix(Tail(es), d)

\* upsert(collection, entries): the collection afterwards and the outcome
UpsertEntryByEntry(coll, es) ==
  [coll |-> Some([dim |-> EstablishedDim(coll, es),
                  entries |-> WriteAll(EntriesOf(coll),
                                MatchingPrefix(es, EstablishedDim(coll, es)))]),
   error |-> IF DimMismatch(coll, es)
             THEN Some("DimensionMismatchError") ELSE Null]

Upsert(coll, es) ==
  IF DimMismatch(coll, es)
  THEN [coll |-> coll, error |-> Some("DimensionMismatchError")]
  ELSE [coll |-> Some([dim |-> EstablishedDim(coll, es),
                       entries |-> WriteAll(EntriesOf(coll), es)]),
        error |-> Null]

\* delete(collection): idempotent, a collection that is not there is no error
Delete(coll) == [coll |-> Null, error |-> Null]

StoreUpsert(b, n, es) ==
  /\ store' = [store EXCEPT ![<<b, n>>] = Upsert(@, es).coll]
  /\ stReply' = Some([op |-> "upsert", slot |-> <<b, n>>,
                      error |-> Upsert(store[<<b, n>>], es).error])
  /\ UNCHANGED stOthers

StoreDelete(b, n) ==
  /\ store' = [store EXCEPT ![<<b, n>>] = Delete(@).coll]
  /\ stReply' = Some([op |-> "delete", slot |-> <<b, n>>,
                      error |-> Delete(store[<<b, n>>]).error])
  /\ UNCHANGED stOthers

StInit ==
  /\ store = [sl \in Slots |-> Null]
  /\ stReply = Null

NextStore ==
  \/ \E b \in Backends, n \in CollNames, es \in EntryBatches :
       StoreUpsert(b, n, es)
  \/ \E b \in Backends, n \in CollNames : StoreDelete(b, n)

\* C8: an upsert with an entry whose dimension differs from the collection's
\* established dimension is rejected with DimensionMismatchError and writes
\* nothing: count and entries stay what they were, also when only some of
\* the call's entries mismatch.
C8_UpsertAllOrNothing ==
  [][\A sl \in {Val(stReply').slot}, es \in EntryBatches :
       (DimMismatch(store[sl], es) /\ StoreUpsert(sl[1], sl[2], es)) =>
         /\ store' = store
         /\ Val(stReply').error = Some("DimensionMismatchError")]_vars

\* a collection that holds entries has just rejected an upsert
C8_Witness ==
  /\ ~IsNull(stReply)
  /\ Val(stReply).op = "upsert"
  /\ Val(stReply).error = Some("DimensionMismatchError")
  /\ Count(store[Val(stReply).slot]) >= 1

(***************************************************************************)
(* VectorStore under concurrent callers.  An upsert takes the lock of its  *)
(* collection, checks the whole batch against the collection, writes the   *)
(* entries one after the other and gives the lock back.                    *)
(***************************************************************************)
Callers == {1, 2}

NotCalling ==
  [phase |-> "idle", slot |-> <<"chromadb", "default">>, es |-> <<>>,
   todo |-> <<>>, error |-> Null, overlapped |-> FALSE]

NoHolder == 0

InCall(w) == w.phase \in {"waiting", "writing"}

\* the lock of a collection can be taken while nobody holds it
LockIgnored(lock, sl) == TRUE

LockFree(lock, sl) == lock[sl] = NoHolder

\* one entry written into a collection of dimension d
WriteOne(coll, d, e) ==
  Some([dim |-> IF IsNull(coll) THEN d ELSE Val(coll).dim,
        entries |-> WriteAll(EntriesOf(coll), <<e>>)])

\* caller c calls upsert(collection, entries)
WrCall(c, b, n, es) ==
  /\ wr[c].phase = "idle"
  /\ wr' = [wr EXCEPT ![c] =
              [phase |-> "waiting", slot |-> <<b, n>>, es |-> es,
               todo |-> es, error |-> Null,
               overlapped |-> \E o \in Callers \ {c} : InCall(wr[o])]]
  /\ wrBase' = IF \A o \in Callers : wr[o].phase = "idle"
               THEN store ELSE wrBase
  /\ UNCHANGED <<store, wrLock>>
  /\ UNCHANGED wrOthers

\* the call gets the lock and checks its batch: a mismatch ends the call
WrAcquire(c) ==
  /\ wr[c].phase = "waiting"
  /\ LockFree(wrLock, wr[c].slot)
  /\ IF DimMismatch(store[wr[c].slot], wr[c].es)
     THEN /\ wr' = [wr EXCEPT ![c].phase = "done", ![c].todo = <<>>,
                              ![c].error = Some("DimensionMismatchError")]
          /\ UNCHANGED wrLock
     ELSE /\ wr' = [wr EXCEPT ![c].phase = "writing"]
          /\ wrLock' = [wrLock EXCEPT ![wr[c].slot] = c]
  /\ UNCHANGED <<store, wrBase>>
  /\ UNCHANGED wrOthers

\* the call writes its next entry; after the last one it gives the lock back
WrWrite(c) ==
  /\ wr[c].phase = "writing"
  /\ store' = [store EXCEPT ![wr[c].slot] =
                 WriteOne(@, wr[c].es[1].dim, Head(wr[c].todo))]
  /\ IF Len(wr[c].todo) = 1
     THEN /\ wr' = [wr EXCEPT ![c].phase = "done", ![c].todo = <<>>]
          /\ wrLock' = [wrLock EXCEPT ![wr[c].slot] = NoHolder]
     ELSE /\ wr' = [wr EXCEPT ![c].todo = Tail(@)]
          /\ UNCHANGED wrLock
  /\ UNCHANGED wrBase
  /\ UNCHANGED wrOthers

\* both calls have returned
WrReturn ==
  /\ \A c \in Callers : wr[c].phase = "done"
  /\ wr' = [c \in Callers |-> NotCalling]
  /\ UNCHANGED <<store, wrLock, wrBase>>
  /\ UNCHANGED wrOthers

WrInit ==
  /\ wr = [c \in Callers |-> NotCalling]
  /\ wrLock = [sl \in Slots |-> NoHolder]
  /\ wrBase = [sl \in Slots |-> Null]

NextWriters ==
  \/ \E c \in Callers, b \in Backends, n \in CollNames, es \in EntryBatches :
       WrCall(c, b, n, es)
  \/ \E c \in Callers : WrAcquire(c)
  \/ \E c \in Callers : WrWrite(c)
  \/ WrReturn

\* the calls of first and then second, one after the other, leave the
\* collection and the two outcomes as they are now
SerialOrder(first, second) ==
  LET sl == wr[first].slot
      one == Upsert(wrBase[sl], wr[first].es)
      two == Upsert(one.coll, wr[second].es)
  IN  /\ store[sl] = two.coll
      /\ wr[first].error = one.error
      /\ wr[second].error = two.error

\* the call of c alone leaves its collection and its outcome as they are now
Alone(c) ==
  LET one == Upsert(wrBase[wr[c].slot], wr[c].es)
  IN  /\ store[wr[c].slot] = one.coll
      /\ wr[c].error = one.error

\* C11: two upsert calls on one collection, however their steps interleave,
\* leave the collection as the two calls run one after the other in some
\* order would: no entry lost or half-written.  Calls on different
\* collections do not wait for each other: a call waits only while a call
\* on its own collection holds the lock.
C11_UpsertsSerialized ==
  /\ (\A c \in Callers : wr[c].phase = "done") =>
       IF wr[1].slot = wr[2].slot
       THEN SerialOrder(1, 2) \/ SerialOrder(2, 1)
       ELSE Alone(1) /\ Alone(2)
  /\ \A c \in Callers :
       (wr[c].phase = "waiting" /\ wrLock[wr[c].slot] # NoHolder) =>
         /\ wr[wrLock[wr[c].slot]].phase = "writing"
         /\ wr[wrLock[wr[c].slot]].slot = wr[c].slot

\* two calls on one collection that overlapped in time, both with an entry
\* for the same id, have both written
C11_Witness ==
  /\ \A c \in Callers : wr[c].phase = "done" /\ IsNull(wr[c].error)
  /\ wr[1].slot = wr[2].slot
  /\ \E c \in Callers : wr[c].overlapped
  /\ \E i \in 1..Len(wr[1].es), j \in 1..Len(wr[2].es) :
       wr[1].es[i].id = wr[2].es[j].id
  /\ Len(wr[1].es) > 1

(***************************************************************************)
(* DatabaseManager component.                                              *)
(***************************************************************************)
MaxInFlight == 2

\* the order in which the collections of the two back ends are listed
SlotOrder ==
  <<<<"chromadb", "default">>, <<"chromadb", "papers">>,
    <<"faiss", "default">>, <<"faiss", "papers">>>>

\* GET /api/collections?backend=b: the names of the collections of b
ListCollections(st, b) ==
  LET slots == SelectSeq(SlotOrder, LAMBDA sl : sl[1] = b /\ ~IsNull(st[sl]))
  IN  [i \in DOMAIN slots |-> slots[i][2]]

\* [...chromaCollections.map(...), ...faissCollections.map(...)]
AllCollections(chromaCollections, faissCollections) ==
  [i \in DOMAIN chromaCollections |->
     [name |-> chromaCollections[i], backend |-> "chromadb"]]
  \o [i \in DOMAIN faissCollections |->
        [name |-> faissCollections[i], backend |-> "faiss"]]

\* what getCollectionStats gave for one collection: it threw, or these stats
StatsThrew == [threw |-> TRUE, count |-> Null]

StatsOf(count) == [threw |-> FALSE, count |-> count]

\* each listed collection with stats.count || 0, or with 0 where
\* getCollectionStats threw
CollectionsWithStats(allCollections, answers) ==
  [i \in DOMAIN allCollections |->
     [name |-> allCollections[i].name, backend |-> allCollections[i].backend,
      count |-> IF answers[i].threw THEN 0
                ELSE IF IsNull(answers[i].count) \/ Val(answers[i].count) = 0
                     THEN 0
                     ELSE Val(answers[i].count),
      loading |-> FALSE]]

\* collections.map(col => col is the one ? {...col, loading} : col)
SetLoadingOf(cols, n, b, flag) ==
  [i \in DOMAIN cols |->
     IF cols[i].name = n /\ cols[i].backend = b
     THEN [cols[i] EXCEPT !.loading = flag] ELSE cols[i]]

\* collections.filter(col => !(col.name === n && col.backend === b))
FilterOut(cols, n, b) ==
  SelectSeq(cols, LAMBDA col : ~(col.name = n /\ col.backend = b))

RemoveAt(seq, i) == SubSeq(seq, 1, i - 1) \o SubSeq(seq, i + 1, Len(seq))

\* loadCollections is not running.  Of a load that is running: `served`
\* holds the answers the back end gave to its listCollections and `answers`
\* those to its getCollectionStats, each as of the moment the request was
\* handled; `lists` and `stats` hold what has arrived
NoLoad ==
  [phase |-> "none", served |-> [b \in Backends |-> Null],
   lists |-> [b \in Backends |-> Null], listed |-> <<>>,
   answers |-> <<>>, stats |-> <<>>, refresh |-> FALSE]

\* loadCollections up to its first await: the two listCollections are sent
LoadBegun(refresh) == [NoLoad EXCEPT !.phase = "list", !.refresh = refresh]

\* what the await of the two listCollections can throw
ListErrors == Thrown("Failed to list collections")

\* deleteCollection throws unless the response says success
DeleteThrowsOnSuccess(reply) == reply.success

DeleteThrows(reply) == ~reply.success

\* `Deleted collection "${collectionName}" from ${backend}`
DeletedMessage(collectionName, backend) ==
  "Deleted collection \"" \o collectionName \o "\" from " \o backend

\* POST /api/store: the vectors of a document, embedded with model m, are
\* upserted into a collection
StoreVectors(b, n, m) ==
  /\ store' = [store EXCEPT ![<<b, n>>] = Upsert(@, <<Entry(1, m)>>).coll]
  /\ UNCHANGED <<stReply, dbVars, srchVars>>
  /\ UNCHANGED <<cmpVars, qryVars, chkVars, appVars, goneVars, wrVars, ckVars,
                 uplVars>>

\* the end of loadCollections: setCollections(collectionsWithStats) and
\* finally; handleRefresh, if it was the caller, goes on
LoadEnds(allCollections, answers) ==
  /\ dbCollections' = CollectionsWithStats(allCollections, answers)
  /\ dbLoading' = FALSE
  /\ dbSuccess' = IF dbLoad.refresh THEN Some("Collections refreshed")
                  ELSE dbSuccess
  /\ dbLoad' = NoLoad

\* the back end handles the listCollections of back end b
DbBackendList(b) ==
  /\ dbLoad.phase = "list"
  /\ IsNull(dbLoad.served[b])
  /\ dbLoad' = [dbLoad EXCEPT !.served[b] = Some(ListCollections(store, b))]
  /\ UNCHANGED <<dbCollections, dbLoading, dbError, dbSuccess, dbDeletes,
                 store>>
  /\ UNCHANGED dbOthers

\* the answer to the listCollections of back end b arrives.  With both
\* answers there, loadCollections goes on after its first await and sends
\* a getCollectionStats for each collection listed; with none listed it
\* ends at once.
DbListed(b) ==
  /\ dbLoad.phase = "list"
  /\ ~IsNull(dbLoad.served[b])
  /\ IsNull(dbLoad.lists[b])
  /\ LET lists == [dbLoad.lists EXCEPT ![b] = dbLoad.served[b]]
         allCollections == AllCollections(Val(lists["chromadb"]),
                                          Val(lists["faiss"]))
     IN  IF \E c \in Backends : IsNull(lists[c])
         THEN /\ dbLoad' = [dbLoad EXCEPT !.lists = lists]
              /\ UNCHANGED <<dbCollections, dbLoading, dbSuccess>>
         ELSE IF allCollections = <<>>
         THEN LoadEnds(<<>>, <<>>)
         ELSE /\ dbLoad' = [dbLoad EXCEPT
                   !.phase = "stats",
                   !.lists = lists,
                   !.listed = allCollections,
                   !.answers = [i \in DOMAIN allCollections |-> Null],
                   !.stats = [i \in DOMAIN allCollections |-> Null]]
              /\ UNCHANGED <<dbCollections, dbLoading, dbSuccess>>
  /\ UNCHANGED <<dbError, dbDeletes, store>>
  /\ UNCHANGED dbOthers

\* the getCollectionStats of the i-th collection listed settles with this
\* answer; with every one settled, loadCollections goes on after its second
\* await
StatsSettled(i, answer) ==
  /\ dbLoad.phase = "stats"
  /\ i \in DOMAIN dbLoad.stats
  /\ IsNull(dbLoad.stats[i])
  /\ LET stats == [dbLoad.stats EXCEPT ![i] = Some(answer)]
     IN  IF \E j \in DOMAIN stats : IsNull(stats[j])
         THEN /\ dbLoad' = [dbLoad EXCEPT !.stats = stats]
              /\ UNCHANGED <<dbCollections, dbLoading, dbSuccess>>
         ELSE LoadEnds(dbLoad.listed, [j \in DOMAIN stats |-> Val(stats[j])])
  /\ UNCHANGED <<dbError, dbDeletes, store>>
  /\ UNCHANGED dbOthers

\* the back end handles the getCollectionStats of the i-th collection
\* listed: its count, or an error when the collection is not there any more
DbBackendStats(i) ==
  /\ dbLoad.phase = "stats"
  /\ i \in DOMAIN dbLoad.listed
  /\ IsNull(dbLoad.answers[i])
  /\ IsNull(dbLoad.stats[i])
  /\ LET sl == <<dbLoad.listed[i].backend, dbLoad.listed[i].name>>
     IN  dbLoad' = [dbLoad EXCEPT !.answers[i] =
           Some(IF IsNull(store[sl]) THEN StatsThrew
                ELSE StatsOf(Some(Count(store[sl]))))]
  /\ UNCHANGED <<dbCollections, dbLoading, dbError, dbSuccess, dbDeletes,
                 store>>
  /\ UNCHANGED dbOthers

\* the back end's answer to the getCollectionStats of the i-th collection
\* listed arrives
DbStatsAnswered(i) ==
  /\ i \in DOMAIN dbLoad.listed
  /\ ~IsNull(dbLoad.answers[i])
  /\ StatsSettled(i, Val(dbLoad.answers[i]))

\* the getCollectionStats of the i-th collection listed fails on its way
DbStatsFailed(i) == StatsSettled(i, StatsThrew)

\* loadCollections ends with setCollections
DbLoaded ==
  /\ dbLoad'.phase = "none"
  /\ \/ \E b \in Backends : DbListed(b)
     \/ \E i \in DOMAIN dbLoad.stats : DbStatsAnswered(i) \/ DbStatsFailed(i)

\* the requests of the component that are under way: the deletes and the
\* load; the model follows at most MaxInFlight of them at a time
DbInFlight == Len(dbDeletes) + (IF dbLoad.phase = "none" THEN 0 ELSE 1)

\* a listCollections fails: catch and finally of loadCollections
DbLoadFailed(err) ==
  /\ dbLoad.phase = "list"
  /\ dbError' = Some(MessageOf(err, "Failed to load collections"))
  /\ dbLoading' = FALSE
  /\ dbSuccess' = IF dbLoad.refresh THEN Some("Collections refreshed")
                  ELSE dbSuccess
  /\ dbLoad' = NoLoad
  /\ UNCHANGED <<dbCollections, dbDeletes, store>>
  /\ UNCHANGED dbOthers

\* handleRefresh up to the first await of loadCollections
handleRefresh ==
  /\ ~dbLoading
  /\ DbInFlight < MaxInFlight
  /\ dbSuccess' = Null
  /\ dbLoading' = TRUE
  /\ dbError' = Null
  /\ dbLoad' = LoadBegun(TRUE)
  /\ UNCHANGED <<dbCollections, dbDeletes, store>>
  /\ UNCHANGED dbOthers

\* handleDelete up to its await, on the i-th row, confirmed
handleDelete(i) ==
  /\ i \in DOMAIN dbCollections
  /\ ~dbCollections[i].loading
  /\ DbInFlight < MaxInFlight
  /\ dbError' = Null
  /\ dbSuccess' = Null
  /\ dbCollections' = SetLoadingOf(dbCollections, dbCollections[i].name,
                                   dbCollections[i].backend, TRUE)
  /\ dbDeletes' = Append(dbDeletes,
       [name |-> dbCollections[i].name, backend |-> dbCollections[i].backend,
        collections |-> dbCollections, reply |-> Null, served |-> "no",
        mounted |-> TRUE])
  /\ UNCHANGED <<dbLoading, dbLoad, store>>
  /\ UNCHANGED dbOthers

\* the back end serves the k-th DELETE
DbBackendDelete(k) ==
  /\ k \in DOMAIN dbDeletes
  /\ IsNull(dbDeletes[k].reply)
  /\ LET sl == <<dbDeletes[k].backend, dbDeletes[k].name>>
     IN /\ store' = [store EXCEPT ![sl] = Delete(@).coll]
        /\ dbDeletes' = [dbDeletes EXCEPT
             ![k].reply = Some([success |-> IsNull(Delete(store[sl]).error),
                                message |-> ""]),
             ![k].served = IF IsNull(store[sl]) THEN "nothing" ELSE "deleted"]
  /\ UNCHANGED <<dbCollections, dbLoading, dbError, dbSuccess, dbLoad>>
  /\ UNCHANGED dbOthers

\* the back end cannot serve the k-th DELETE and says so in the envelope
DbBackendUnavailable(k, message) ==
  /\ k \in DOMAIN dbDeletes
  /\ IsNull(dbDeletes[k].reply)
  /\ dbDeletes' = [dbDeletes EXCEPT
       ![k].reply = Some([success |-> FALSE, message |-> message]),
       ![k].served = "refused"]
  /\ UNCHANGED <<dbCollections, dbLoading, dbError, dbSuccess, dbLoad, store>>
  /\ UNCHANGED dbOthers

\* await deleteCollection(...) resolves in the k-th handleDelete; the
\* state of a component that is unmounted is not set any more
DbDeleteResolved(k) ==
  /\ k \in DOMAIN dbDeletes
  /\ ~IsNull(dbDeletes[k].reply)
  /\ ~DeleteThrows(Val(dbDeletes[k].reply))
  /\ IF dbDeletes[k].mounted
     THEN /\ dbCollections' = FilterOut(dbDeletes[k].collections,
                                        dbDeletes[k].name, dbDeletes[k].backend)
          /\ dbSuccess' = Some(DeletedMessage(dbDeletes[k].name,
                                              dbDeletes[k].backend))
     ELSE UNCHANGED <<dbCollections, dbSuccess>>
  /\ dbDeletes' = RemoveAt(dbDeletes, k)
  /\ UNCHANGED <<dbLoading, dbError, dbLoad, store>>
  /\ UNCHANGED dbOthers

\* what the catch of the k-th handleDelete does with what it caught
DeleteCaught(k, err) ==
  /\ IF dbDeletes[k].mounted
     THEN /\ dbError' = Some(MessageOf(err, "Failed to delete collection"))
          /\ dbCollections' = SetLoadingOf(dbDeletes[k].collections,
                                           dbDeletes[k].name,
                                           dbDeletes[k].backend, FALSE)
     ELSE UNCHANGED <<dbError, dbCollections>>
  /\ dbDeletes' = RemoveAt(dbDeletes, k)
  /\ UNCHANGED <<dbLoading, dbSuccess, dbLoad, store>>
  /\ UNCHANGED dbOthers

\* await deleteCollection(...) throws in the k-th handleDelete, the
\* envelope not saying success: catch
DbDeleteRejected(k) ==
  /\ k \in DOMAIN dbDeletes
  /\ ~IsNull(dbDeletes[k].reply)
  /\ DeleteThrows(Val(dbDeletes[k].reply))
  /\ DeleteCaught(k, Refused(Val(dbDeletes[k].reply),
                             "Failed to delete collection"))

\* the k-th DELETE or its reply is lost on the network, or the server
\* responds with an error status: catch
DbDeleteNetworkError(k, failure) ==
  /\ k \in DOMAIN dbDeletes
  /\ DeleteCaught(k, Intercepted(failure))

\* a pending setTimeout(() => setSuccessMessage(null), 3000) fires
DbSuccessTimeout ==
  /\ ~IsNull(dbSuccess)
  /\ dbSuccess' = Null
  /\ UNCHANGED <<dbCollections, dbLoading, dbError, dbLoad, dbDeletes, store>>
  /\ UNCHANGED dbOthers

\* DatabaseManager is mounted: the initial values of its state, and its
\* effect has called loadCollections
DbMount ==
  /\ dbCollections' = <<>>
  /\ dbLoading' = TRUE
  /\ dbError' = Null
  /\ dbSuccess' = Null
  /\ dbLoad' = LoadBegun(FALSE)

\* the component is mounted and its effect has called loadCollections
DbInit ==
  /\ dbCollections = <<>>
  /\ dbLoading = TRUE
  /\ dbError = Null
  /\ dbSuccess = Null
  /\ dbLoad = LoadBegun(FALSE)
  /\ dbDeletes = <<>>

NextDB ==
  \/ \E b \in Backends, n \in CollNames : StoreVectors(b, n, "tfidf")
  \/ \E b \in Backends : DbBackendList(b)
  \/ \E b \in Backends : DbListed(b)
  \/ \E i \in 1..Len(SlotOrder) : DbBackendStats(i)
  \/ \E i \in 1..Len(SlotOrder) : DbStatsAnswered(i)
  \/ \E i \in 1..Len(SlotOrder) : DbStatsFailed(i)
  \/ \E err \in ListErrors : DbLoadFailed(err)
  \/ handleRefresh
  \/ \E i \in 1..Len(SlotOrder) : handleDelete(i)
  \/ \E k \in 1..MaxInFlight : DbBackendDelete(k)
  \/ \E k \in 1..MaxInFlight, message \in RefusalMessages :
       DbBackendUnavailable(k, message)
  \/ \E k \in 1..MaxInFlight : DbDeleteResolved(k)
  \/ \E k \in 1..MaxInFlight : DbDeleteRejected(k)
  \/ \E k \in 1..MaxInFlight, failure \in Failures :
       DbDeleteNetworkError(k, failure)
  \/ DbSuccessTimeout

\* C9: deleting a collection that does not exist changes nothing and raises
\* no error, however often it is done; the handleDelete that asked for it
\* ends with the success message and sets no error message.
C9_DeleteIdempotent ==
  [][\A k \in DOMAIN dbDeletes :
       /\ (/\ IsNull(store[<<dbDeletes[k].backend, dbDeletes[k].name>>])
           /\ DbBackendDelete(k)) =>
            /\ store' = store
            /\ Val(dbDeletes'[k].reply).success
       /\ (/\ dbDeletes[k].served = "nothing"
           /\ DbDeleteResolved(k) \/ DbDeleteRejected(k)) =>
            /\ dbError' = dbError
            /\ ~IsNull(dbSuccess')]_vars

\* the back end has served the DELETE of a collection that was not there
C9_Witness ==
  \E k \in DOMAIN dbDeletes :
    /\ dbDeletes[k].served = "nothing"
    /\ ~IsNull(dbDeletes[k].reply)
    /\ IsNull(dbError)

\* C10: collections are scoped per back end: a delete of (name, backend)
\* that succeeds takes that one row out of the list and leaves the row of
\* the same name in the other back end, and every other row, as it was.
C10_DeleteRemovesOnlyThatRow ==
  [][\A k \in DOMAIN dbDeletes :
       DbDeleteResolved(k) =>
         dbCollections' = FilterOut(dbCollections, dbDeletes[k].name,
                                    dbDeletes[k].backend)]_vars

\* the list shows a row for collection n of back end b
Listed(cols, n, b) ==
  \E i \in DOMAIN cols : cols[i].name = n /\ cols[i].backend = b

\* C23: a delete that succeeds takes its row (name, backend) out of the
\* displayed list; a row that is not in the list comes back only with a
\* reload, also while deletes of other collections are under way; a delete
\* that fails leaves its row in the list, not marked loading, and sets the
\* error message.
C23_DeletedStaysAbsent ==
  [][/\ \A k \in DOMAIN dbDeletes :
          DbDeleteResolved(k) =>
            ~Listed(dbCollections', dbDeletes[k].name, dbDeletes[k].backend)
     /\ \A i \in DOMAIN SlotOrder :
          (~Listed(dbCollections, SlotOrder[i][2], SlotOrder[i][1])
             /\ ~DbLoaded) =>
            ~Listed(dbCollections', SlotOrder[i][2], SlotOrder[i][1])
     /\ \A k \in DOMAIN dbDeletes :
          (\/ DbDeleteRejected(k)
           \/ \E failure \in Failures : DbDeleteNetworkError(k, failure)) =>
            /\ \E i \in DOMAIN dbCollections' :
                 /\ dbCollections'[i].name = dbDeletes[k].name
                 /\ dbCollections'[i].backend = dbDeletes[k].backend
                 /\ ~dbCollections'[i].loading
            /\ ~IsNull(dbError')]_vars

(***************************************************************************)
(* Retriever and SearchInterface component.                                *)
(***************************************************************************)
SearchTopKMin == 1

SearchTopKMax == 20

SearchTopKDefault == 5

\* the positions the Top Results slider is moved to
TopKSlid == {SearchTopKMin, SearchTopKDefault, SearchTopKMax}

\* the SearchRequest that handleSearch builds
SearchRequest ==
  [query_text |-> srchQuery, backend |-> srchBackend,
   collection_name |-> srchCollection, top_k |-> srchTopK,
   model_type |-> "sentence_transformer", model_name |-> "all-MiniLM-L6-v2"]

\* the collection of this name in back end b, if there is one
CollectionAt(st, b, n) == IF <<b, n>> \in DOMAIN st THEN st[<<b, n>>] ELSE Null

\* the models whose vectors a collection holds
ModelsIn(coll) == {Val(coll).entries[id] : id \in DOMAIN Val(coll).entries}

\* the Retriever's check: the query is embedded with the collection's model
\* and dimension
RetrieverAccepts(req, coll) ==
  /\ DimOf(req.model_type) = Val(coll).dim
  /\ ModelsIn(coll) \subseteq {req.model_type}

Min(a, b) == IF a <= b THEN a ELSE b

\* retrieve(collection, query_text, top_k, embedder, model)
Retrieve(req, coll) ==
  IF IsNull(coll)
  THEN [success |-> FALSE, message |-> "collection not found", data |-> Null]
  ELSE IF ~RetrieverAccepts(req, coll)
  THEN [success |-> FALSE, message |-> "embedding model mismatch",
        data |-> Null]
  ELSE [success |-> TRUE, message |-> "",
        data |-> Some([query_model |-> req.model_type,
                       entry_models |-> ModelsIn(coll),
                       total |-> Min(req.top_k, Count(coll))])]

SrchSetQuery(t) ==
  /\ ~srchIsSearching
  /\ srchQuery' = t
  /\ UNCHANGED <<srchBackend, srchCollection, srchTopK, srchIsSearching,
                 srchError, srchFlights, appSearchResults>>
  /\ UNCHANGED srchOthers

SrchSetBackend(b) ==
  /\ ~srchIsSearching
  /\ srchBackend' = b
  /\ UNCHANGED <<srchQuery, srchCollection, srchTopK, srchIsSearching,
                 srchError, srchFlights, appSearchResults>>
  /\ UNCHANGED srchOthers

\* the Collection box: setCollectionName(e.target.value)
SrchSetCollectionName(n) ==
  /\ ~srchIsSearching
  /\ srchCollection' = n
  /\ UNCHANGED <<srchQuery, srchBackend, srchTopK, srchIsSearching, srchError,
                 srchFlights, appSearchResults>>
  /\ UNCHANGED srchOthers

\* the Top Results slider: setTopK(Number(e.target.value))
SrchSetTopK(k) ==
  /\ ~srchIsSearching
  /\ SearchTopKMin <= k /\ k <= SearchTopKMax
  /\ srchTopK' = k
  /\ UNCHANGED <<srchQuery, srchBackend, srchCollection, srchIsSearching,
                 srchError, srchFlights, appSearchResults>>
  /\ UNCHANGED srchOthers

\* handleSearch up to its await, from the button or the Enter key
handleSearch ==
  /\ ~srchIsSearching
  /\ IF Blank(srchQuery)
     THEN /\ srchError' = Some("Please enter a search query")
          /\ UNCHANGED <<srchIsSearching, srchFlights>>
     ELSE /\ srchIsSearching' = TRUE
          /\ srchError' = Null
          /\ srchFlights' =
               Put(srchFlights,
                   [request |-> SearchRequest, reply |-> Null,
                    mounted |-> TRUE])
  /\ UNCHANGED <<srchQuery, srchBackend, srchCollection, srchTopK,
                 appSearchResults>>
  /\ UNCHANGED srchOthers

\* POST /api/search is served
SrchBackendServe(f) ==
  /\ f \in BagToSet(srchFlights)
  /\ IsNull(f.reply)
  /\ srchFlights' =
       Put(Take(srchFlights, f),
           [f EXCEPT !.reply =
              Some(Retrieve(f.request,
                            CollectionAt(store, f.request.backend,
                                         f.request.collection_name)))])
  /\ UNCHANGED <<srchQuery, srchBackend, srchCollection, srchTopK,
                 srchIsSearching, srchError, appSearchResults>>
  /\ UNCHANGED srchOthers

\* await searchVectors(request) resolves: onSearchComplete, which is
\* App.handleSearchComplete: setSearchResults(results); setError(null);
\* and finally.  The state of a component that is unmounted is not set.
SrchResolve(f) ==
  /\ f \in BagToSet(srchFlights)
  /\ ~IsNull(f.reply)
  /\ Val(f.reply).success
  /\ appSearchResults' = Val(f.reply).data
  /\ appError' = Null
  /\ srchIsSearching' = IF f.mounted THEN FALSE ELSE srchIsSearching
  /\ srchFlights' = Take(srchFlights, f)
  /\ UNCHANGED <<srchQuery, srchBackend, srchCollection, srchTopK, srchError>>
  /\ UNCHANGED <<chkDocuments, chkStrategy, chkSize, chkOverlap, chkIsChunking, chkStatus,
                 chkError, chkRun, appChunkResults, appEmbeddingResult,
                 embOutdated>>
  /\ UNCHANGED <<cmpVars, qryVars, stVars, wrVars, dbVars, appVars, goneVars,
                 ckVars, uplVars>>

\* what the catch of handleSearch does with what it caught; finally
SearchCaught(f, err) ==
  /\ srchError' = IF f.mounted THEN Some(MessageOf(err, "Search failed"))
                  ELSE srchError
  /\ srchIsSearching' = IF f.mounted THEN FALSE ELSE srchIsSearching
  /\ srchFlights' = Take(srchFlights, f)
  /\ UNCHANGED <<srchQuery, srchBackend, srchCollection, srchTopK,
                 appSearchResults>>
  /\ UNCHANGED srchOthers

\* await searchVectors(request) throws, the envelope not saying success
SrchReject(f) ==
  /\ f \in BagToSet(srchFlights)
  /\ ~IsNull(f.reply)
  /\ ~Val(f.reply).success
  /\ SearchCaught(f, Refused(Val(f.reply), "Search failed"))

\* the request or its reply is lost on the network, or the server responds
\* with an error status
SrchNetworkError(f, failure) ==
  /\ f \in BagToSet(srchFlights)
  /\ SearchCaught(f, Intercepted(failure))

\* SearchInterface is mounted: the initial values of its state
SrchMount ==
  /\ srchQuery' = <<>>
  /\ srchBackend' = "chromadb"
  /\ srchCollection' = "default"
  /\ srchTopK' = SearchTopKDefault
  /\ srchIsSearching' = FALSE
  /\ srchError' = Null

SrchInit ==
  /\ srchQuery = <<>>
  /\ srchBackend = "chromadb"
  /\ srchCollection = "default"
  /\ srchTopK = SearchTopKDefault
  /\ srchIsSearching = FALSE
  /\ srchError = Null
  /\ srchFlights = EmptyBag
  /\ appSearchResults = Null

NextSearch ==
  \/ \E b \in Backends, n \in CollNames, m \in ModelTypes : StoreVectors(b, n, m)
  \/ \E t \in Texts : SrchSetQuery(t)
  \/ \E b \in Backends : SrchSetBackend(b)
  \/ \E n \in CollectionsTyped : SrchSetCollectionName(n)
  \/ \E k \in TopKSlid : SrchSetTopK(k)
  \/ handleSearch
  \/ \E f \in BagToSet(srchFlights) : SrchBackendServe(f)
  \/ \E f \in BagToSet(srchFlights) : SrchResolve(f)
  \/ \E f \in BagToSet(srchFlights) : SrchReject(f)
  \/ \E f \in BagToSet(srchFlights), failure \in Failures : SrchNetworkError(f, failure)

\* C5: every search issued for a collection embeds the query with the model
\* (and so the dimension) of the vectors stored in it, and no search result
\* is computed across different models.
C5_SearchUsesCollectionModel ==
  /\ \A f \in BagToSet(srchFlights) :
       (/\ IsNull(f.reply)
        /\ ~IsNull(CollectionAt(store, f.request.backend,
                                f.request.collection_name)))
         => ModelsIn(CollectionAt(store, f.request.backend,
                                  f.request.collection_name))
              = {f.request.model_type}
  /\ ~IsNull(appSearchResults) =>
       Val(appSearchResults).entry_models
         \subseteq {Val(appSearchResults).query_model}

(***************************************************************************)
(* App component: the documents, the selection, the results of the phases  *)
(* and the phase shown, with the EmbeddingConfig and VectorStoreSelector   *)
(* components of phases 2 and 3.  A component is mounted while its phase   *)
(* is shown; a request it sent goes on after it is unmounted and calls the  *)
(* App's handler it was given.                                             *)
(***************************************************************************)
MaxPending == 2

\* most uploads that succeed
MaxUploads == 2

PhaseLast == 5
StepCount == 5

ModelTypeDefault == "tfidf"
MaxFeaturesMin == 100
MaxFeaturesMax == 5000
MaxFeaturesDefault == 1000
BatchSize == 32
BackendDefault == "chromadb"
CollectionDefault == "default"

\* the documents the back end holds at the start
Docs == 1..MaxDocs

\* the documents there can be: those and the uploaded ones
AllDocs == 1..(MaxDocs + MaxUploads)

\* one of the listings of a set: its ids in ascending order
RECURSIVE Ascending(_)
Ascending(S) ==
  IF S = {} THEN <<>> ELSE <<SetMin(S)>> \o Ascending(S \ {SetMin(S)})

\* GET /api/documents: the documents held, in the order the back end
\* chooses
Listings(S) ==
  {docs \in [1..Cardinality(S) -> S] :
     \A i, j \in 1..Cardinality(S) : docs[i] = docs[j] => i = j}

chkComp ==
  <<chkStrategy, chkSize, chkOverlap, chkIsChunking, chkStatus, chkError, chkRun>>

embComp == <<embIsGenerating, embError, embWire>>

\* what the user has set in EmbeddingConfig
embForm == <<embModelType, embMaxFeatures>>

vsComp == <<vsIsStoring, vsStoreStatus, vsError, vsWire>>

\* what the user has set in VectorStoreSelector
vsForm == <<vsBackend, vsCollection>>

\* what a change of the content shown leaves alone
phaseOthers == <<cmpVars, stReply, wrVars, ckVars>>

\* what the App holds beside the documents, the phase, loading and error
appData ==
  <<chkDocuments, appChunkResults, appEmbeddingResult, appVectorStoreStatus,
    appFetches, beEmbedded, store, appSearchResults>>

\* what the DocumentList leaves alone outside the App
listOthers ==
  <<cmpVars, qryVars, stReply, wrVars, dbVars, srchVars, ckVars, goneVars,
    uplComp, uplOrphans, beUploads, appLoads>>

qryComp ==
  <<qryProviders, qryLoadingProviders, qryProvider, qryQuestion, qryLoading,
    qryError, qryResponse, qryHttp, qryRequest, qryReply, qryContext>>

srchComp ==
  <<srchQuery, srchBackend, srchCollection, srchTopK, srchIsSearching,
    srchError, srchFlights>>

\* what the steps of the App leave alone, but for the requests whose
\* component is gone
appRest ==
  <<cmpVars, qryVars, stReply, wrVars, dbVars, srchVars, ckVars, uplVars>>

appOthers == <<appRest, goneVars>>

\* the requests of the App and its components that are under way
Pending ==
  BagCardinality(appFetches) + BagCardinality(appDocDeletes)
    + (IF chkRun = NoRun THEN 0 ELSE 1) + BagCardinality(chkOrphans)
    + (IF IsNull(embWire) THEN 0 ELSE 1) + BagCardinality(embOrphans)
    + (IF IsNull(vsWire) THEN 0 ELSE 1) + BagCardinality(vsOrphans)

\* loading ? spinner : content
AppShown == ~appLoading

\* the phase whose content the page shows, if it shows one
Shown == IF appLoading THEN Null ELSE Some(appPhase)

getCurrentStep ==
  IF Len(chkDocuments) = 0 THEN 0
  ELSE IF appChunkResults = {} THEN 1
  ELSE IF IsNull(appEmbeddingResult) THEN 2
  ELSE 3

getCompletedSteps ==
  {i \in {0} : Len(chkDocuments) > 0}
    \cup {i \in {1} : appChunkResults # {}}
    \cup {i \in {2} : ~IsNull(appEmbeddingResult)}

canNavigateToPhase(phase) ==
  CASE phase = 0 -> TRUE
    [] phase = 1 -> Len(chkDocuments) > 0
    [] phase = 2 -> Len(chkDocuments) > 0 /\ appChunkResults # {}
    [] phase = 3 -> /\ Len(chkDocuments) > 0 /\ appChunkResults # {}
                    /\ ~IsNull(appEmbeddingResult)
    [] phase \in {4, 5} -> /\ Len(chkDocuments) > 0 /\ appChunkResults # {}
                           /\ ~IsNull(appEmbeddingResult)
                           /\ appVectorStoreStatus # {}
    [] OTHER -> FALSE

\* WorkflowStepper
canClickStep(index) ==
  index = 0 \/ index \in getCompletedSteps \/ index = getCurrentStep

\* DocumentUpload is mounted: the initial values of its state, and an
\* empty file input
UplMount ==
  /\ uplIsUploading' = FALSE
  /\ uplError' = Null
  /\ uplChosen' = Null
  /\ uplWire' = Null
  /\ uplServed' = FALSE

\* The content shown changes from the one of a phase to the one of another
\* (setActivePhase), or the spinner takes its place or gives it back
\* (loading); from and to are the phase shown before and after.  The
\* components of the phase that is left are unmounted: their state is gone
\* and their requests in flight no longer reach them; an upload (wire, or
\* one of orphans), a run of handleChunkAll, a delete go on without their
\* component.  The DatabaseManager of phase 3, the SearchInterface of phase
\* 4 and the RAGQuery of phase 5 are mounted anew when their phase is
\* entered: their state is the initial one, the answers to a load under way
\* reach nothing, and the deletes and searches under way go on without
\* their component.
PhaseChange(from, to, wire, orphans) ==
  /\ IF from = Some(0) /\ to # Some(0)
     THEN /\ UplMount
          /\ uplOrphans' = IF IsNull(wire) THEN orphans
                           ELSE Put(orphans, [file |-> Val(wire),
                                              served |-> uplServed])
          /\ listDeletingId' = Null
          /\ appDocDeletes' = BagOfAll(Unmounted, appDocDeletes)
     ELSE /\ uplOrphans' = orphans
          /\ UNCHANGED <<uplComp, listDeletingId, appDocDeletes>>
  /\ IF from = Some(1) /\ to # Some(1)
     THEN /\ chkStrategy' = StrategyDefault
          /\ chkSize' = ChunkSizeDefault
          /\ chkOverlap' = OverlapDefault
          /\ chkIsChunking' = FALSE
          /\ chkStatus' = <<>>
          /\ chkError' = Null
          /\ chkRun' = NoRun
          /\ chkOrphans' = IF chkRun = NoRun THEN chkOrphans
                           ELSE Put(chkOrphans, chkRun)
     ELSE UNCHANGED <<chkComp, chkOrphans>>
  /\ IF from = Some(2) /\ to # Some(2)
     THEN /\ embIsGenerating' = FALSE
          /\ embError' = Null
          /\ embWire' = Null
          /\ embOutdated' = FALSE
          /\ embModelType' = ModelTypeDefault
          /\ embMaxFeatures' = MaxFeaturesDefault
          /\ embOrphans' =
               IF IsNull(embWire) THEN embOrphans
               ELSE Put(embOrphans, [request |-> Val(embWire).request,
                                     outdated |-> embOutdated,
                                     served |-> Val(embWire).served])
     ELSE UNCHANGED <<embComp, embForm, embOutdated, embOrphans>>
  /\ IF from = Some(3) /\ to # Some(3)
     THEN /\ vsIsStoring' = FALSE
          /\ vsStoreStatus' = [b \in Backends |-> Null]
          /\ vsError' = Null
          /\ vsWire' = Null
          /\ vsBackend' = BackendDefault
          /\ vsCollection' = CollectionDefault
          /\ vsOrphans' =
               IF IsNull(vsWire) THEN vsOrphans
               ELSE Put(vsOrphans,
                        [request |-> Val(vsWire).request,
                         vectorStoreStatus |-> Val(vsWire).vectorStoreStatus,
                         reply |-> Val(vsWire).reply])
     ELSE UNCHANGED <<vsComp, vsForm, vsOrphans>>
  /\ IF (from = Some(3)) # (to = Some(3))
     THEN /\ DbMount
          /\ dbDeletes' = [k \in DOMAIN dbDeletes |-> Unmounted(dbDeletes[k])]
     ELSE UNCHANGED dbVars
  /\ IF (from = Some(4)) # (to = Some(4))
     THEN /\ SrchMount
          /\ srchFlights' = BagOfAll(Unmounted, srchFlights)
     ELSE UNCHANGED srchComp
  /\ IF (from = Some(5)) # (to = Some(5))
     THEN /\ QryMount
          /\ qryOrphans' = IF qryHttp = "none" THEN qryOrphans
                           ELSE Put(qryOrphans, qryRequest)
     ELSE UNCHANGED <<qryComp, qryOrphans>>

\* setActivePhase
setActivePhase(phase) ==
  /\ appPhase' = phase
  /\ PhaseChange(Shown, Some(phase), uplWire, uplOrphans)
  /\ UNCHANGED <<appData, appDocuments, appLoading, appError, beDocs,
                 beUploads, appLoads>>
  /\ UNCHANGED phaseOthers

\* loadDocuments up to its await: setLoading(true); setError(null);
\* getDocuments is sent.  With loading set the spinner takes the place of
\* the content.
loadDocuments(wire, orphans) ==
  /\ appLoading' = TRUE
  /\ appError' = Null
  /\ appLoads' = Put(appLoads, Null)
  /\ PhaseChange(Shown, Null, wire, orphans)

\* the Next button
handleNextPhase ==
  /\ AppShown
  /\ appPhase < PhaseLast /\ canNavigateToPhase(appPhase + 1)
  /\ setActivePhase(appPhase + 1)

\* the Previous button
handlePrevPhase ==
  /\ AppShown
  /\ appPhase > 0
  /\ setActivePhase(appPhase - 1)

\* a click on a step of the WorkflowStepper
AppStepClick(index) ==
  /\ AppShown
  /\ canClickStep(index)
  /\ setActivePhase(index)

\* the back end handles a getDocuments: it answers with the documents it
\* holds at that moment, in this order
BeGetDocuments(docs) ==
  /\ Null \in BagToSet(appLoads)
  /\ docs \in Listings(beDocs)
  /\ appLoads' = Put(Take(appLoads, Null), Some(docs))
  /\ UNCHANGED <<appData, appDocuments, appLoading, appError, appPhase,
                 beDocs, beUploads>>
  /\ UNCHANGED <<uplComp, uplOrphans, listDeletingId, appDocDeletes>>
  /\ UNCHANGED <<chkComp, chkOrphans, embComp, embForm, embOutdated,
                 embOrphans, vsComp, vsForm, vsOrphans, dbVars, srchComp,
                 qryComp, qryOrphans>>
  /\ UNCHANGED phaseOthers

\* the listings the back end has answered the loads under way with
Answered(loads) == {Val(l) : l \in {x \in BagToSet(loads) : ~IsNull(x)}}

\* loadDocuments, after getDocuments resolves with these documents:
\* setDocuments(docs); finally setLoading(false) gives the content back
AppDocsLoaded(docs) ==
  /\ Some(docs) \in BagToSet(appLoads)
  /\ appDocuments' = docs
  /\ appLoading' = FALSE
  /\ appLoads' = Take(appLoads, Some(docs))
  /\ PhaseChange(Shown, Some(appPhase), uplWire, uplOrphans)
  /\ UNCHANGED <<appData, appError, appPhase, beDocs, beUploads>>
  /\ UNCHANGED phaseOthers

\* loadDocuments, catch and finally
AppDocsLoadFailed(err) ==
  /\ \E l \in BagToSet(appLoads) : appLoads' = Take(appLoads, l)
  /\ appError' = Some(MessageOf(err, "Failed to load documents"))
  /\ appLoading' = FALSE
  /\ PhaseChange(Shown, Some(appPhase), uplWire, uplOrphans)
  /\ UNCHANGED <<appData, appDocuments, appPhase, beDocs, beUploads>>
  /\ UNCHANGED phaseOthers

\* the tab buttons of phase 5: onClick={() => setError(null)}
AppTabClick ==
  /\ AppShown /\ appPhase = 5
  /\ appError' = Null
  /\ UNCHANGED <<chkDocuments, appChunkResults, appEmbeddingResult,
                 embOutdated, appDocuments, appLoading, appVectorStoreStatus,
                 appPhase, chkOrphans, appFetches, appDocDeletes, beDocs,
                 beEmbedded, store>>
  /\ UNCHANGED <<chkComp, embComp, embForm, vsComp, vsForm>>
  /\ UNCHANGED appOthers

NeverSelected(selectedDocs, doc) == FALSE

isAlreadySelected(selectedDocs, doc) == Includes(selectedDocs, doc)

\* handleDocumentSelect up to its await: a click on a document of the list
handleDocumentSelect(doc) ==
  /\ AppShown /\ appPhase = 0
  /\ Includes(appDocuments, doc)
  /\ IF isAlreadySelected(chkDocuments, doc)
     THEN /\ chkDocuments' = Without(chkDocuments, doc)
          /\ UNCHANGED appFetches
     ELSE /\ Pending < MaxPending
          /\ appFetches' =
               Put(appFetches, [doc |-> doc, selectedDocs |-> chkDocuments,
                                reply |-> Null])
          /\ UNCHANGED chkDocuments
  /\ UNCHANGED <<appChunkResults, appEmbeddingResult, embOutdated, appError,
                 appDocuments, appLoading, appVectorStoreStatus, appPhase,
                 chkOrphans, appDocDeletes, beDocs, beEmbedded, store>>
  /\ UNCHANGED <<chkComp, embComp, embForm, vsComp, vsForm>>
  /\ UNCHANGED appOthers

\* the back end handles a getDocument: it holds the document at that
\* moment, or it does not
BeGetDocument(f) ==
  /\ f \in BagToSet(appFetches)
  /\ IsNull(f.reply)
  /\ appFetches' =
       Put(Take(appFetches, f),
           [f EXCEPT !.reply = Some(IF f.doc \in beDocs THEN "found"
                                    ELSE "not found")])
  /\ UNCHANGED <<chkDocuments, appChunkResults, appEmbeddingResult,
                 embOutdated, appError, appDocuments, appLoading,
                 appVectorStoreStatus, appPhase, chkOrphans, appDocDeletes,
                 beDocs, beEmbedded, store>>
  /\ UNCHANGED <<chkComp, embComp, embForm, vsComp, vsForm>>
  /\ UNCHANGED appOthers

\* handleDocumentSelect, after getDocument resolves
AppFetchResolved(f) ==
  /\ f \in BagToSet(appFetches)
  /\ f.reply = Some("found")
  /\ chkDocuments' = Append(f.selectedDocs, f.doc)
  /\ appFetches' = Take(appFetches, f)
  /\ UNCHANGED <<appChunkResults, appEmbeddingResult, embOutdated, appError,
                 appDocuments, appLoading, appVectorStoreStatus, appPhase,
                 chkOrphans, appDocDeletes, beDocs, beEmbedded, store>>
  /\ UNCHANGED <<chkComp, embComp, embForm, vsComp, vsForm>>
  /\ UNCHANGED appOthers

\* handleDocumentSelect, catch
AppFetchRejected(f, err) ==
  /\ f \in BagToSet(appFetches)
  /\ appError' = Some(MessageOf(err, "Failed to load document"))
  /\ appFetches' = Take(appFetches, f)
  /\ UNCHANGED <<chkDocuments, appChunkResults, appEmbeddingResult,
                 embOutdated, appDocuments, appLoading, appVectorStoreStatus,
                 appPhase, chkOrphans, appDocDeletes, beDocs, beEmbedded, store>>
  /\ UNCHANGED <<chkComp, embComp, embForm, vsComp, vsForm>>
  /\ UNCHANGED appOthers

\* DocumentList.handleDelete, confirmed, and App.handleDocumentDelete up to
\* the await; the delete button of the document that deletingId names is
\* disabled
handleDocumentDelete(docId) ==
  /\ AppShown /\ appPhase = 0
  /\ Includes(appDocuments, docId)
  /\ listDeletingId # Some(docId)
  /\ Pending < MaxPending
  /\ listDeletingId' = Some(docId)
  /\ appDocDeletes' =
       Put(appDocDeletes,
           [doc |-> docId, documents |-> appDocuments,
            selectedDocs |-> chkDocuments, chunkResults |-> appChunkResults,
            reply |-> Null, mounted |-> TRUE])
  /\ UNCHANGED <<chkDocuments, appChunkResults, appEmbeddingResult,
                 embOutdated, appError, appDocuments, appLoading,
                 appVectorStoreStatus, appPhase, chkOrphans, appFetches,
                 beDocs, beEmbedded, store>>
  /\ UNCHANGED <<chkComp, embComp, embForm, vsComp, vsForm>>
  /\ UNCHANGED listOthers

\* DocumentList.handleDelete, finally: setDeletingId(null), in the
\* DocumentList that is still mounted
DeleteSettled(x) ==
  /\ listDeletingId' = IF x.mounted THEN Null ELSE listDeletingId
  /\ appDocDeletes' = Take(appDocDeletes, x)

\* the back end handles a deleteDocument: the document it holds is deleted,
\* or it holds no such document
BeDeleteDocument(x) ==
  /\ x \in BagToSet(appDocDeletes)
  /\ IsNull(x.reply)
  /\ beDocs' = beDocs \ {x.doc}
  /\ appDocDeletes' =
       Put(Take(appDocDeletes, x),
           [x EXCEPT !.reply = Some(IF x.doc \in beDocs THEN "deleted"
                                    ELSE "not found")])
  /\ UNCHANGED <<chkDocuments, appChunkResults, appEmbeddingResult,
                 embOutdated, appError, appDocuments, appLoading,
                 appVectorStoreStatus, appPhase, chkOrphans, appFetches,
                 beEmbedded, store, listDeletingId>>
  /\ UNCHANGED <<chkComp, embComp, embForm, vsComp, vsForm>>
  /\ UNCHANGED listOthers

\* handleDocumentDelete, after deleteDocument resolves
AppDeleteResolved(x) ==
  /\ x \in BagToSet(appDocDeletes)
  /\ x.reply = Some("deleted")
  /\ appDocuments' = Without(x.documents, x.doc)
  /\ chkDocuments' = Without(x.selectedDocs, x.doc)
  /\ appChunkResults' = x.chunkResults \ {x.doc}
  /\ DeleteSettled(x)
  /\ UNCHANGED <<appEmbeddingResult, embOutdated, appError, appLoading,
                 appVectorStoreStatus, appPhase, chkOrphans, appFetches,
                 beDocs, beEmbedded, store>>
  /\ UNCHANGED <<chkComp, embComp, embForm, vsComp, vsForm>>
  /\ UNCHANGED listOthers

\* handleDocumentDelete, catch
AppDeleteRejected(x, err) ==
  /\ x \in BagToSet(appDocDeletes)
  /\ appError' = Some(MessageOf(err, "Failed to delete document"))
  /\ DeleteSettled(x)
  /\ UNCHANGED <<chkDocuments, appChunkResults, appEmbeddingResult,
                 embOutdated, appDocuments, appLoading, appVectorStoreStatus,
                 appPhase, chkOrphans, appFetches, beDocs, beEmbedded, store>>
  /\ UNCHANGED <<chkComp, embComp, embForm, vsComp, vsForm>>
  /\ UNCHANGED listOthers

\* Generate Chunks in phase 1
AppChunkAll ==
  /\ AppShown /\ appPhase = 1
  /\ Pending < MaxPending
  /\ handleChunkAll

\* how a run without its component goes on after the answer for the
\* document it is at: with the next document, or it is over
OrphanTurn(status, run) ==
  IF run.at + 1 <= Len(run.docs)
  THEN Put(Take(chkOrphans, run), Turn(status, run, run.at + 1))
  ELSE Take(chkOrphans, run)

\* await chunkDocument(...) resolves in a run whose component is unmounted:
\* the run's onChunkingComplete is still the App's handleChunkingComplete
ChkOrphanResolved(run) ==
  /\ run \in BagToSet(chkOrphans)
  /\ ChunkParamsValid(Val(run.wire))
  /\ appChunkResults' = handleChunkingComplete(run.closure, run.docs[run.at])
  /\ appEmbeddingResult' = Null
  /\ embOutdated' = ~IsNull(embWire)
  /\ embOrphans' = Outdated(embOrphans)
  /\ appError' = Null
  /\ chkOrphans' =
       OrphanTurn([run.status EXCEPT ![run.docs[run.at]] = "success"], run)
  /\ UNCHANGED <<chkDocuments, appDocuments, appLoading, appVectorStoreStatus,
                 appPhase, appFetches, appDocDeletes, beDocs, beEmbedded, store>>
  /\ UNCHANGED <<chkComp, embComp, embForm, vsComp, vsForm>>
  /\ UNCHANGED <<qryOrphans, vsOrphans>>
  /\ UNCHANGED appRest

\* await chunkDocument(...) rejects in a run whose component is unmounted
ChkOrphanRejected(run) ==
  /\ run \in BagToSet(chkOrphans)
  /\ chkOrphans' =
       OrphanTurn([run.status EXCEPT ![run.docs[run.at]] = "error"], run)
  /\ UNCHANGED <<chkDocuments, appChunkResults, appEmbeddingResult,
                 embOutdated, appError, appDocuments, appLoading,
                 appVectorStoreStatus, appPhase, appFetches, appDocDeletes,
                 beDocs, beEmbedded, store>>
  /\ UNCHANGED <<chkComp, embComp, embForm, vsComp, vsForm>>
  /\ UNCHANGED appOthers

\* the props of EmbeddingConfig and VectorStoreSelector
documentId ==
  IF chkDocuments = <<>> THEN Null ELSE Some(chkDocuments[1])

hasChunks == appChunkResults # {}

hasEmbeddings == ~IsNull(appEmbeddingResult)

\* the state of the App and of the back end that the settings of a
\* component leave alone
appState ==
  <<chkDocuments, appChunkResults, appEmbeddingResult, embOutdated, appError,
    appDocuments, appLoading, appVectorStoreStatus, appPhase, chkOrphans,
    appFetches, appDocDeletes, beDocs, beEmbedded, store>>

\* the positions the Max Features slider is moved to
MaxFeaturesSlid == {MaxFeaturesMin, MaxFeaturesDefault}

\* the model buttons of EmbeddingConfig: setModelType
EmbSetModelType(m) ==
  /\ ~embIsGenerating
  /\ embModelType' = m
  /\ UNCHANGED <<embMaxFeatures, embComp, vsComp, vsForm, chkComp>>
  /\ UNCHANGED appState
  /\ UNCHANGED appOthers

\* the Max Features slider, shown for tfidf:
\* setMaxFeatures(Number(e.target.value))
EmbSetMaxFeatures(v) ==
  /\ embModelType = "tfidf" /\ ~embIsGenerating
  /\ MaxFeaturesMin <= v /\ v <= MaxFeaturesMax
  /\ embMaxFeatures' = v
  /\ UNCHANGED <<embModelType, embComp, vsComp, vsForm, chkComp>>
  /\ UNCHANGED appState
  /\ UNCHANGED appOthers

\* the EmbeddingRequest that handleGenerate builds
EmbeddingRequest(doc) ==
  [document_id |-> doc, model_type |-> embModelType,
   max_features |-> IF embModelType = "tfidf" THEN Some(embMaxFeatures)
                    ELSE Null,
   batch_size |-> IF embModelType = "sentence_transformer"
                  THEN Some(BatchSize) ELSE Null]

\* EmbeddingConfig.handleGenerate up to its await; the button is enabled
handleGenerate ==
  /\ ~IsNull(documentId) /\ hasChunks /\ ~embIsGenerating
  /\ embIsGenerating' = TRUE
  /\ embError' = Null
  /\ embWire' = Some([request |-> EmbeddingRequest(Val(documentId)),
                       served |-> FALSE])
  /\ embOutdated' = FALSE
  /\ UNCHANGED <<chkDocuments, appChunkResults, appEmbeddingResult, appError,
                 appDocuments, appLoading, appVectorStoreStatus, appPhase,
                 chkOrphans, appFetches, appDocDeletes, beDocs, beEmbedded,
                 store>>
  /\ UNCHANGED <<chkComp, embForm, vsComp, vsForm>>
  /\ UNCHANGED appOthers

\* Generate Embeddings in phase 2
AppGenerate ==
  /\ AppShown /\ appPhase = 2
  /\ Pending < MaxPending
  /\ handleGenerate

\* POST /api/embed handled: the back end holds the document's embeddings,
\* made with the model of the request
Embedded(request) ==
  [beEmbedded EXCEPT ![request.document_id] = Some(request.model_type)]

\* the back end handles the POST /api/embed of handleGenerate: from then
\* on it holds the embeddings, whatever becomes of the reply
BeEmbed ==
  /\ ~IsNull(embWire) /\ ~Val(embWire).served
  /\ beEmbedded' = Embedded(Val(embWire).request)
  /\ embWire' = Some([Val(embWire) EXCEPT !.served = TRUE])
  /\ UNCHANGED <<chkDocuments, appChunkResults, appEmbeddingResult,
                 embOutdated, appError, appDocuments, appLoading,
                 appVectorStoreStatus, appPhase, chkOrphans, appFetches,
                 appDocDeletes, beDocs, store, embIsGenerating, embError>>
  /\ UNCHANGED <<chkComp, embForm, vsComp, vsForm>>
  /\ UNCHANGED appOthers

\* the back end handles the POST /api/embed of a handleGenerate whose
\* component is unmounted
BeEmbedOrphan(o) ==
  /\ o \in BagToSet(embOrphans) /\ ~o.served
  /\ beEmbedded' = Embedded(o.request)
  /\ embOrphans' = Put(Take(embOrphans, o), [o EXCEPT !.served = TRUE])
  /\ UNCHANGED <<chkDocuments, appChunkResults, appEmbeddingResult,
                 embOutdated, appError, appDocuments, appLoading,
                 appVectorStoreStatus, appPhase, chkOrphans, appFetches,
                 appDocDeletes, beDocs, store>>
  /\ UNCHANGED <<chkComp, embComp, embForm, vsComp, vsForm>>
  /\ UNCHANGED <<qryOrphans, vsOrphans>>
  /\ UNCHANGED appRest

\* the EmbeddingResponse to a request
EmbeddingResponse(request) ==
  [document_id |-> request.document_id, model_type |-> request.model_type]

\* handleGenerate, after generateEmbeddings resolves:
\* handleEmbeddingComplete; finally
EmbResolved ==
  /\ ~IsNull(embWire) /\ Val(embWire).served
  /\ appEmbeddingResult' = Some(EmbeddingResponse(Val(embWire).request))
  /\ appError' = Null
  /\ embIsGenerating' = FALSE
  /\ embWire' = Null
  /\ embOutdated' = FALSE
  /\ UNCHANGED <<chkDocuments, appChunkResults, appDocuments, appLoading,
                 appVectorStoreStatus, appPhase, chkOrphans, appFetches,
                 appDocDeletes, beDocs, beEmbedded, store, embError>>
  /\ UNCHANGED <<chkComp, embForm, vsComp, vsForm>>
  /\ UNCHANGED appOthers

\* handleGenerate, catch and finally: the request or its reply is lost, or
\* the server responds with an error status
EmbRejected(err) ==
  /\ ~IsNull(embWire)
  /\ embError' = Some(MessageOf(err, "Embedding generation failed"))
  /\ embIsGenerating' = FALSE
  /\ embWire' = Null
  /\ embOutdated' = FALSE
  /\ UNCHANGED <<chkDocuments, appChunkResults, appEmbeddingResult, appError,
                 appDocuments, appLoading, appVectorStoreStatus, appPhase,
                 chkOrphans, appFetches, appDocDeletes, beDocs, beEmbedded,
                 store>>
  /\ UNCHANGED <<chkComp, embForm, vsComp, vsForm>>
  /\ UNCHANGED appOthers

\* generateEmbeddings resolves for a handleGenerate whose component is
\* unmounted: its onEmbeddingComplete is still App.handleEmbeddingComplete
EmbOrphanResolved(o) ==
  /\ o \in BagToSet(embOrphans) /\ o.served
  /\ appEmbeddingResult' = Some(EmbeddingResponse(o.request))
  /\ appError' = Null
  /\ embOrphans' = Take(embOrphans, o)
  /\ UNCHANGED <<chkDocuments, appChunkResults, embOutdated, appDocuments,
                 appLoading, appVectorStoreStatus, appPhase, chkOrphans,
                 appFetches, appDocDeletes, beDocs, beEmbedded, store>>
  /\ UNCHANGED <<chkComp, embComp, embForm, vsComp, vsForm>>
  /\ UNCHANGED <<qryOrphans, vsOrphans>>
  /\ UNCHANGED appRest

\* generateEmbeddings rejects for a handleGenerate whose component is
\* unmounted: no state is set
EmbOrphanRejected(o) ==
  /\ o \in BagToSet(embOrphans)
  /\ embOrphans' = Take(embOrphans, o)
  /\ UNCHANGED <<embComp, embForm, vsComp, vsForm, chkComp>>
  /\ UNCHANGED appState
  /\ UNCHANGED <<qryOrphans, vsOrphans>>
  /\ UNCHANGED appRest

\* the embeddings of the selected document have been generated with model m
\* and handleEmbeddingComplete has recorded the response
EmbeddingsGenerated(m) ==
  /\ ~IsNull(documentId)
  /\ LET request == [document_id |-> Val(documentId), model_type |-> m]
     IN  /\ beEmbedded' = Embedded(request)
         /\ appEmbeddingResult' = Some(EmbeddingResponse(request))
  /\ appError' = Null
  /\ UNCHANGED <<chkDocuments, appChunkResults, embOutdated, appDocuments,
                 appLoading, appVectorStoreStatus, appPhase, chkOrphans,
                 appFetches, appDocDeletes, beDocs, store>>
  /\ UNCHANGED <<chkComp, embComp, embForm, vsComp, vsForm>>
  /\ UNCHANGED appOthers

\* the back end buttons of VectorStoreSelector: setSelectedBackend
VsSetBackend(b) ==
  /\ ~vsIsStoring
  /\ vsBackend' = b
  /\ UNCHANGED <<vsCollection, vsComp, embComp, embForm, chkComp>>
  /\ UNCHANGED appState
  /\ UNCHANGED appOthers

\* the Collection Name box: setCollectionName(e.target.value)
VsSetCollectionName(n) ==
  /\ ~vsIsStoring
  /\ vsCollection' = n
  /\ UNCHANGED <<vsBackend, vsComp, embComp, embForm, chkComp>>
  /\ UNCHANGED appState
  /\ UNCHANGED appOthers

\* the StoreVectorsRequest that handleStore builds
StoreVectorsRequest(doc) ==
  [document_id |-> doc, backend |-> vsBackend,
   collection_name |-> vsCollection]

\* VectorStoreSelector.handleStore up to its await; the button is enabled
handleStore ==
  /\ ~IsNull(documentId) /\ hasEmbeddings /\ ~vsIsStoring
  /\ vsIsStoring' = TRUE
  /\ vsError' = Null
  /\ vsWire' = Some([request |-> StoreVectorsRequest(Val(documentId)),
                     vectorStoreStatus |-> appVectorStoreStatus,
                     storeStatus |-> vsStoreStatus, reply |-> Null])
  /\ UNCHANGED <<chkDocuments, appChunkResults, appEmbeddingResult,
                 embOutdated, appError, appDocuments, appLoading,
                 appVectorStoreStatus, appPhase, chkOrphans, appFetches,
                 appDocDeletes, beDocs, beEmbedded, store, vsStoreStatus>>
  /\ UNCHANGED <<chkComp, embComp, embForm, vsForm>>
  /\ UNCHANGED appOthers

\* Store Vectors in phase 3
AppStore ==
  /\ AppShown /\ appPhase = 3
  /\ Pending < MaxPending
  /\ handleStore

\* POST /api/store succeeds: the back end holds embeddings of the
\* document and their dimension is the collection's
Storable(request) ==
  /\ ~IsNull(beEmbedded[request.document_id])
  /\ ~DimMismatch(store[<<request.backend, request.collection_name>>],
                  <<Entry(1, Val(beEmbedded[request.document_id]))>>)

\* POST /api/store handled with success: the document's vectors are
\* upserted into the collection of the request
Stored(request) ==
  [store EXCEPT ![<<request.backend, request.collection_name>>] =
     Upsert(@, <<Entry(1, Val(beEmbedded[request.document_id]))>>).coll]

\* what the back end answers to a POST /api/store it handles now
StoreReply(request) ==
  IF Storable(request) THEN Some("stored") ELSE Some("refused")

\* the vector stores after the back end has handled a POST /api/store
StoreHandled(request) ==
  IF Storable(request) THEN Stored(request) ELSE store

\* the back end handles the POST /api/store of handleStore: it upserts the
\* embeddings it holds at that moment, or refuses
BeStore ==
  /\ ~IsNull(vsWire) /\ IsNull(Val(vsWire).reply)
  /\ store' = StoreHandled(Val(vsWire).request)
  /\ vsWire' =
       Some([Val(vsWire) EXCEPT !.reply = StoreReply(Val(vsWire).request)])
  /\ UNCHANGED <<chkDocuments, appChunkResults, appEmbeddingResult,
                 embOutdated, appError, appDocuments, appLoading,
                 appVectorStoreStatus, appPhase, chkOrphans, appFetches,
                 appDocDeletes, beDocs, beEmbedded, vsIsStoring,
                 vsStoreStatus, vsError>>
  /\ UNCHANGED <<chkComp, embComp, embForm, vsForm>>
  /\ UNCHANGED appOthers

\* the back end handles the POST /api/store of a handleStore whose
\* component is unmounted
BeStoreOrphan(o) ==
  /\ o \in BagToSet(vsOrphans) /\ IsNull(o.reply)
  /\ store' = StoreHandled(o.request)
  /\ vsOrphans' =
       Put(Take(vsOrphans, o), [o EXCEPT !.reply = StoreReply(o.request)])
  /\ UNCHANGED <<chkDocuments, appChunkResults, appEmbeddingResult,
                 embOutdated, appError, appDocuments, appLoading,
                 appVectorStoreStatus, appPhase, chkOrphans, appFetches,
                 appDocDeletes, beDocs, beEmbedded>>
  /\ UNCHANGED <<chkComp, embComp, embForm, vsComp, vsForm>>
  /\ UNCHANGED <<qryOrphans, embOrphans>>
  /\ UNCHANGED appRest

\* handleStore, after storeVectors resolves: setStoreStatus;
\* handleVectorStoreComplete; finally
VsResolved ==
  /\ ~IsNull(vsWire) /\ Val(vsWire).reply = Some("stored")
  /\ LET w == Val(vsWire)
     IN  /\ appVectorStoreStatus' =
              w.vectorStoreStatus \cup {w.request.backend}
         /\ vsStoreStatus' =
              [w.storeStatus EXCEPT ![w.request.backend] = Some("success")]
  /\ vsIsStoring' = FALSE
  /\ appError' = Null
  /\ vsWire' = Null
  /\ UNCHANGED <<chkDocuments, appChunkResults, appEmbeddingResult,
                 embOutdated, appDocuments, appLoading, appPhase, chkOrphans,
                 appFetches, appDocDeletes, beDocs, beEmbedded, store,
                 vsError>>
  /\ UNCHANGED <<chkComp, embComp, embForm, vsForm>>
  /\ UNCHANGED appOthers

\* handleStore, catch and finally: the request or its reply is lost, or
\* the server responds with an error status
VsRejected(err) ==
  /\ ~IsNull(vsWire)
  /\ LET w == Val(vsWire)
     IN  /\ vsError' = Some(MessageOf(err, "Failed to store vectors"))
         /\ vsStoreStatus' =
              [w.storeStatus EXCEPT ![w.request.backend] = Some("error")]
  /\ vsIsStoring' = FALSE
  /\ vsWire' = Null
  /\ UNCHANGED <<chkDocuments, appChunkResults, appEmbeddingResult,
                 embOutdated, appError, appDocuments, appLoading,
                 appVectorStoreStatus, appPhase, chkOrphans, appFetches,
                 appDocDeletes, beDocs, beEmbedded, store>>
  /\ UNCHANGED <<chkComp, embComp, embForm, vsForm>>
  /\ UNCHANGED appOthers

\* storeVectors resolves for a handleStore whose component is unmounted:
\* its onStoreComplete is still the handleVectorStoreComplete it was given
VsOrphanResolved(o) ==
  /\ o \in BagToSet(vsOrphans) /\ o.reply = Some("stored")
  /\ appVectorStoreStatus' = o.vectorStoreStatus \cup {o.request.backend}
  /\ appError' = Null
  /\ vsOrphans' = Take(vsOrphans, o)
  /\ UNCHANGED <<chkDocuments, appChunkResults, appEmbeddingResult,
                 embOutdated, appDocuments, appLoading, appPhase, chkOrphans,
                 appFetches, appDocDeletes, beDocs, beEmbedded, store>>
  /\ UNCHANGED <<chkComp, embComp, embForm, vsComp, vsForm>>
  /\ UNCHANGED <<qryOrphans, embOrphans>>
  /\ UNCHANGED appRest

\* storeVectors rejects for a handleStore whose component is unmounted: no
\* state is set
VsOrphanRejected(o) ==
  /\ o \in BagToSet(vsOrphans)
  /\ vsOrphans' = Take(vsOrphans, o)
  /\ UNCHANGED <<embComp, embForm, vsComp, vsForm, chkComp>>
  /\ UNCHANGED appState
  /\ UNCHANGED <<qryOrphans, embOrphans>>
  /\ UNCHANGED appRest

AppInit ==
  /\ vsOrphans = EmptyBag
  /\ beEmbedded = [d \in AllDocs |-> Null]
  /\ embModelType = ModelTypeDefault
  /\ embMaxFeatures = MaxFeaturesDefault
  /\ vsBackend = BackendDefault
  /\ vsCollection = CollectionDefault
  /\ appDocuments = <<>>
  /\ appLoading = TRUE
  /\ appVectorStoreStatus = {}
  /\ appPhase = 0
  /\ chkOrphans = EmptyBag
  /\ appFetches = EmptyBag
  /\ appDocDeletes = EmptyBag
  /\ beDocs = Docs
  /\ embIsGenerating = FALSE
  /\ embError = Null
  /\ embWire = Null
  /\ vsIsStoring = FALSE
  /\ vsStoreStatus = [b \in Backends |-> Null]
  /\ vsError = Null
  /\ vsWire = Null

\* the document list of phase 0, with the step to phase 1 and back
NextSelect ==
  \/ \E docs \in Listings(beDocs) : BeGetDocuments(docs)
  \/ \E docs \in Answered(appLoads) : AppDocsLoaded(docs)
  \/ \E err \in Thrown("Failed to fetch documents") : AppDocsLoadFailed(err)
  \/ \E doc \in Docs : handleDocumentSelect(doc)
  \/ \E f \in BagToSet(appFetches) : BeGetDocument(f)
  \/ \E f \in BagToSet(appFetches) : AppFetchResolved(f)
  \/ \E f \in BagToSet(appFetches), err \in Thrown("Failed to fetch document") :
       AppFetchRejected(f, err)
  \/ \E d \in Docs : handleDocumentDelete(d)
  \/ \E x \in BagToSet(appDocDeletes) : BeDeleteDocument(x)
  \/ \E x \in BagToSet(appDocDeletes) : AppDeleteResolved(x)
  \/ \E x \in BagToSet(appDocDeletes), err \in Thrown("Failed to delete document") :
       AppDeleteRejected(x, err)
  \/ handleNextPhase
  \/ handlePrevPhase

\* the phases of the pipeline up to the embeddings over the documents that
\* are listed, in one order of the list; the orders of the list, the fetch
\* that fails and the deletion of documents are examined with the document
\* list, the upload with DocumentUpload, the storing of the vectors with
\* the VectorStoreSelector of phase 3
NextApp ==
  \/ BeGetDocuments(Ascending(beDocs))
  \/ \E docs \in Answered(appLoads) : AppDocsLoaded(docs)
  \/ \E err \in Unreached : AppDocsLoadFailed(err)
  \/ \E doc \in Docs : handleDocumentSelect(doc)
  \/ \E f \in BagToSet(appFetches) : BeGetDocument(f)
  \/ \E f \in BagToSet(appFetches) : AppFetchResolved(f)
  \/ AppChunkAll
  \/ ChkDocResolved
  \/ ChkDocRejected
  \/ \E run \in BagToSet(chkOrphans) : ChkOrphanResolved(run)
  \/ \E run \in BagToSet(chkOrphans) : ChkOrphanRejected(run)
  \/ AppGenerate
  \/ BeEmbed
  \/ EmbResolved
  \/ \E err \in Unreached : EmbRejected(err)
  \/ \E o \in BagToSet(embOrphans) : BeEmbedOrphan(o)
  \/ \E o \in BagToSet(embOrphans) : EmbOrphanResolved(o)
  \/ \E o \in BagToSet(embOrphans) : EmbOrphanRejected(o)
  \/ handleNextPhase
  \/ handlePrevPhase
  \/ \E index \in 0..StepCount - 1 : AppStepClick(index)

\* the phases of the pipeline up to the stored vectors, walked with the
\* Next and Previous buttons and the tabs: the embedding request whose reply is lost,
\* the requests that go on without their component, the store request
\* handled before or after the embeddings change
NextStoring ==
  \/ BeGetDocuments(Ascending(beDocs))
  \/ \E docs \in Answered(appLoads) : AppDocsLoaded(docs)
  \/ \E doc \in Docs : handleDocumentSelect(doc)
  \/ \E f \in BagToSet(appFetches) : BeGetDocument(f)
  \/ \E f \in BagToSet(appFetches) : AppFetchResolved(f)
  \/ AppChunkAll
  \/ ChkDocResolved
  \/ \E run \in BagToSet(chkOrphans) : ChkOrphanResolved(run)
  \/ AppGenerate
  \/ BeEmbed
  \/ EmbResolved
  \/ \E err \in Unreached : EmbRejected(err)
  \/ \E o \in BagToSet(embOrphans) : BeEmbedOrphan(o)
  \/ \E o \in BagToSet(embOrphans) : EmbOrphanResolved(o)
  \/ AppStore
  \/ BeStore
  \/ VsResolved
  \/ \E err \in Unreached : VsRejected(err)
  \/ \E o \in BagToSet(vsOrphans) : BeStoreOrphan(o)
  \/ \E o \in BagToSet(vsOrphans) : VsOrphanResolved(o)
  \/ \E o \in BagToSet(vsOrphans) : VsOrphanRejected(o)
  \/ handleNextPhase
  \/ handlePrevPhase
  \/ AppTabClick

\* EmbeddingConfig with its settings, over the documents and chunk results
\* it is given
NextEmbed ==
  \/ \E docs \in DocumentLists : ChkSetDocuments(docs)
  \/ handleChunkAll
  \/ ChkDocResolved
  \/ \E m \in ModelTypes : EmbSetModelType(m)
  \/ \E v \in MaxFeaturesSlid : EmbSetMaxFeatures(v)
  \/ handleGenerate
  \/ BeEmbed
  \/ EmbResolved
  \/ \E err \in Thrown("Embedding generation failed") : EmbRejected(err)

\* VectorStoreSelector with its settings, over the documents and the
\* embeddings it is given
NextVectors ==
  \/ \E docs \in DocumentLists : ChkSetDocuments(docs)
  \/ \E m \in ModelTypes : EmbeddingsGenerated(m)
  \/ \E b \in Backends : VsSetBackend(b)
  \/ \E n \in CollectionsTyped : VsSetCollectionName(n)
  \/ handleStore
  \/ BeStore
  \/ VsResolved
  \/ \E err \in Thrown("Failed to store vectors") : VsRejected(err)

\* C14: the phase shown is one of 0..5 and its prerequisites hold: from
\* phase 1 on a document is selected, from phase 2 on there is a chunk
\* result, from phase 3 on an embedding result, from phase 4 on a
\* stored-vector status.
C14_PhasePrerequisites ==
  /\ appPhase \in 0..PhaseLast
  /\ appPhase >= 1 => Len(chkDocuments) > 0
  /\ appPhase >= 2 => appChunkResults # {}
  /\ appPhase >= 3 => ~IsNull(appEmbeddingResult)
  /\ appPhase >= 4 => appVectorStoreStatus # {}

\* C17: every embedding request that is issued names a document that has a
\* chunk result in chunkResults at that moment.
C17_EmbedsChunkedDocument ==
  [][handleGenerate =>
       Val(embWire').request.document_id \in appChunkResults]_vars

\* C18: every store request that is issued names the document whose
\* embeddings are held: its document_id is embeddingResult.document_id.
C18_StoresEmbeddedDocument ==
  [][handleStore =>
       /\ ~IsNull(appEmbeddingResult)
       /\ Val(vsWire').request.document_id
            = Val(appEmbeddingResult).document_id]_vars

\* C21: when the fetch of a clicked document succeeds, that document is in
\* selectedDocs and so is every document that was in it just before: two
\* documents clicked one after the other are both selected whichever fetch
\* completes first.  (No document delete is under way.)
C21_BothSelected ==
  [][\A f \in BagToSet(appFetches) :
       (AppFetchResolved(f) /\ appDocDeletes = EmptyBag) =>
         SeqToSet(chkDocuments) \cup {f.doc} \subseteq SeqToSet(chkDocuments')]_vars

\* C26: a delete of document d that succeeds removes d from documents,
\* selectedDocs and chunkResults and leaves every other entry of the three
\* as it is; a delete that fails leaves the three unchanged and sets the
\* error message.
C26_DeleteRemovesOnlyItsDocument ==
  [][\A x \in BagToSet(appDocDeletes) :
       /\ AppDeleteResolved(x) =>
            /\ appDocuments' = Without(appDocuments, x.doc)
            /\ chkDocuments' = Without(chkDocuments, x.doc)
            /\ appChunkResults' = appChunkResults \ {x.doc}
       /\ (\E err \in Thrown("Failed to delete document") :
             AppDeleteRejected(x, err)) =>
            /\ UNCHANGED <<appDocuments, chkDocuments, appChunkResults>>
            /\ ~IsNull(appError')]_vars

\* C27: selectedDocs never holds two entries with the same document id.
C27_NoDuplicateSelection ==
  \A i, j \in DOMAIN chkDocuments :
    chkDocuments[i] = chkDocuments[j] => i = j

\* two documents are selected and every request has completed, the fetch
\* of one of the two after the delete of that document: the back end does
\* not hold it any more
C27_Witness ==
  /\ Len(chkDocuments) = 2
  /\ \E i \in DOMAIN chkDocuments : chkDocuments[i] \notin beDocs
  /\ appFetches = EmptyBag /\ appDocDeletes = EmptyBag

\* the runs of Generate Chunks that have not ended
RunsInProgress ==
  (IF chkRun = NoRun THEN 0 ELSE 1) + BagCardinality(chkOrphans)

\* C22: a held embedding result is never older than the chunks: every
\* chunking completion clears embeddingResult, and an embedding response
\* that arrives after a chunking completion recorded since its request was
\* issued leaves embeddingResult empty.
C22_EmbeddingsNotOlderThanChunks ==
  [][/\ (ChkDocResolved \/ \E run \in BagToSet(chkOrphans) : ChkOrphanResolved(run)) =>
          IsNull(appEmbeddingResult')
     /\ (EmbResolved /\ embOutdated) => IsNull(appEmbeddingResult')
     /\ \A o \in BagToSet(embOrphans) :
          (EmbOrphanResolved(o) /\ o.outdated) =>
            IsNull(appEmbeddingResult')]_vars

\* C24: at any time at most one Generate Chunks run is in progress, also
\* after a navigation to another phase and back to the chunking phase.
C24_OneRunAtATime == RunsInProgress <= 1

(***************************************************************************)
(* Chunker: text -> ordered chunks, per strategy.  Offsets count           *)
(* characters from 0; a chunk is the slice [start, end) of the text.       *)
(***************************************************************************)
MaxTextLen == 5
MaxChunkSize == 3

\* one line break stands for a paragraph break
PB == "\n"

DocChars == {"a", ".", SP, PB}

DocTexts == UNION {[1..n -> DocChars] : n \in 0..MaxTextLen}

CeilDiv(a, b) == (a + b - 1) \div b

\* the windows of `size` characters at start, start + step, ...: every
\* position that has characters is a window's start
RECURSIVE WindowsAtEveryStart(_, _, _, _)
WindowsAtEveryStart(len, size, step, start) ==
  IF start >= len THEN <<>>
  ELSE <<[start |-> start, end |-> Min(start + size, len)]>>
       \o WindowsAtEveryStart(len, size, step, start + step)

\* the windows of `size` characters at start, start + step, ... up to the
\* window that reaches the end of the text, which may be shorter
RECURSIVE WindowsFrom(_, _, _, _)
WindowsFrom(len, size, step, start) ==
  IF start >= len THEN <<>>
  ELSE <<[start |-> start, end |-> Min(start + size, len)]>>
       \o (IF start + size >= len THEN <<>>
           ELSE WindowsFrom(len, size, step, start + step))

\* Fixed: advance by size - overlap
FixedSpans(len, size, overlap) == WindowsFrom(len, size, size - overlap, 0)

\* Sliding window: advance by the stride
SlidingSpans(len, size, stride) == WindowsFrom(len, size, stride, 0)

\* spans shifted by `by` characters
Shift(spans, by) ==
  [i \in DOMAIN spans |->
     [start |-> spans[i].start + by, end |-> spans[i].end + by]]

IsSpace(c) == c \in {SP, PB}

\* where a separator goes when the text is split at it: to the end of the
\* piece before it or to the start of the piece after it
Keeps == {"before", "after"}

\* a cut after character i splits the text between i and i + 1
\* paragraph break: after the last line break of a run, or before its first
CutsParagraph(text, keep) ==
  {i \in 1..Len(text) - 1 :
     IF keep = "before" THEN text[i] = PB /\ text[i + 1] # PB
     ELSE text[i] # PB /\ text[i + 1] = PB}

\* sentence boundary: between a full stop and the next sentence's first
\* character, after the white space that lies between them or before it
CutsSentence(text, keep) ==
  {i \in 1..Len(text) - 1 :
     IF keep = "before"
     THEN /\ ~IsSpace(text[i + 1]) /\ text[i + 1] # "."
          /\ \E j \in 1..i :
               text[j] = "." /\ \A k \in j + 1..i : IsSpace(text[k])
     ELSE /\ text[i] = "."
          /\ \E j \in i + 1..Len(text) :
               /\ ~IsSpace(text[j]) /\ text[j] # "."
               /\ \A k \in i + 1..j - 1 : IsSpace(text[k])}

\* white space: after the last character of a run of white space, or before
\* its first
CutsWhitespace(text, keep) ==
  {i \in 1..Len(text) - 1 :
     IF keep = "before" THEN IsSpace(text[i]) /\ ~IsSpace(text[i + 1])
     ELSE ~IsSpace(text[i]) /\ IsSpace(text[i + 1])}

\* the pieces the cuts split the text into, in order
RECURSIVE PiecesFrom(_, _, _)
PiecesFrom(len, cuts, start) ==
  IF start >= len THEN <<>>
  ELSE LET next == SetMin({c \in cuts : c > start} \cup {len})
       IN  <<[start |-> start, end |-> next]>> \o PiecesFrom(len, cuts, next)

Pieces(text, cuts) == PiecesFrom(Len(text), cuts, 0)

Fits(pieces, size) ==
  \A i \in DOMAIN pieces : pieces[i].end - pieces[i].start <= size

\* consecutive pieces accumulated until the next one would exceed size; a
\* piece longer than size stays whole
RECURSIVE Pack(_, _)
Pack(pieces, size) ==
  IF Len(pieces) <= 1 THEN pieces
  ELSE IF pieces[2].end - pieces[1].start <= size
       THEN Pack(<<[start |-> pieces[1].start, end |-> pieces[2].end]>>
                 \o Tail(Tail(pieces)), size)
       ELSE <<pieces[1]>> \o Pack(Tail(pieces), size)

\* Sentence: sentences accumulated up to size, never split
SentenceSpans(text, size, keep) ==
  Pack(Pieces(text, CutsSentence(text, keep)), size)

\* the similarity signal of two sentences: they share a word
Similar(text, a, b) ==
  \E i \in a.start + 1..a.end, j \in b.start + 1..b.end :
    text[i] = "a" /\ text[j] = "a"

\* Semantic: a new chunk when the next sentence is not similar to the last
\* one, or would exceed size
RECURSIVE SemanticFrom(_, _, _, _, _)
SemanticFrom(text, pieces, size, cur, last) ==
  IF pieces = <<>> THEN <<cur>>
  ELSE IF /\ Similar(text, last, Head(pieces))
          /\ Head(pieces).end - cur.start <= size
       THEN SemanticFrom(text, Tail(pieces), size,
                         [start |-> cur.start, end |-> Head(pieces).end],
                         Head(pieces))
       ELSE <<cur>> \o SemanticFrom(text, Tail(pieces), size,
                                    Head(pieces), Head(pieces))

SemanticSpans(text, size, keep) ==
  LET sentences == Pieces(text, CutsSentence(text, keep))
  IN  IF sentences = <<>> THEN <<>>
      ELSE SemanticFrom(text, Tail(sentences), size,
                        Head(sentences), Head(sentences))

\* Fixed on every piece that is longer than size
RECURSIVE FixedOnOffending(_, _, _)
FixedOnOffending(pieces, size, overlap) ==
  IF pieces = <<>> THEN <<>>
  ELSE (IF Head(pieces).end - Head(pieces).start <= size
        THEN <<Head(pieces)>>
        ELSE Shift(FixedSpans(Head(pieces).end - Head(pieces).start,
                              size, overlap),
                   Head(pieces).start))
       \o FixedOnOffending(Tail(pieces), size, overlap)

\* Recursive: the highest-priority separator whose pieces all fit; adjacent
\* undersized pieces merged up to size; Fixed on a piece that does not fit
RecursiveSpans(text, size, overlap, keep) ==
  LET byParagraph == Pieces(text, CutsParagraph(text, keep))
      bySentence == Pieces(text, CutsSentence(text, keep))
      byWhitespace == Pieces(text, CutsWhitespace(text, keep))
      chosen == IF Fits(byParagraph, size) THEN byParagraph
                ELSE IF Fits(bySentence, size) THEN bySentence
                ELSE byWhitespace
  IN  FixedOnOffending(Pack(chosen, size), size, overlap)

\* the strategies that split the text at separators
Separating == {"recursive", "sentence", "semantic"}

\* the calls within the contract: size > 0, 0 <= overlap < size, and for the
\* sliding window a stride with 0 < stride < size, whatever the overlap.
\* The stride of the other strategies is the step of Fixed; `keep` matters
\* to the separating strategies only.
ChunkInputs ==
  {in \in [text : DocTexts, strategy : Strategies, size : 1..MaxChunkSize,
           overlap : 0..MaxChunkSize - 1, stride : 1..MaxChunkSize,
           keep : Keeps] :
     /\ in.overlap < in.size
     /\ IF in.strategy = "sliding_window"
        THEN in.stride < in.size
        ELSE in.stride = in.size - in.overlap
     /\ in.strategy \notin Separating => in.keep = "before"}

SpansOf(in) ==
  CASE in.strategy = "fixed" ->
         FixedSpans(Len(in.text), in.size, in.overlap)
    [] in.strategy = "sliding_window" ->
         SlidingSpans(Len(in.text), in.size, in.stride)
    [] in.strategy = "sentence" -> SentenceSpans(in.text, in.size, in.keep)
    [] in.strategy = "semantic" -> SemanticSpans(in.text, in.size, in.keep)
    [] in.strategy = "recursive" ->
         RecursiveSpans(in.text, in.size, in.overlap, in.keep)

\* the chunk of a span, its text with the white space at its ends removed
ChunkOfStripped(text, span, index) ==
  [index |-> index, start_offset |-> span.start, end_offset |-> span.end,
   text |-> Trim(SubSeq(text, span.start + 1, span.end)),
   char_count |-> Len(Trim(SubSeq(text, span.start + 1, span.end)))]

\* the chunk of a span: the slice of the text and its length
ChunkOf(text, span, index) ==
  [index |-> index, start_offset |-> span.start, end_offset |-> span.end,
   text |-> SubSeq(text, span.start + 1, span.end),
   char_count |-> Len(SubSeq(text, span.start + 1, span.end))]

\* chunk(text, strategy, size, overlap)
Chunk(in) ==
  [i \in 1..Len(SpansOf(in)) |-> ChunkOf(in.text, SpansOf(in)[i], i - 1)]

CkCall ==
  /\ ~IsNull(ckIn)
  /\ IsNull(ckOut)
  /\ ckOut' = Some(Chunk(Val(ckIn)))
  /\ UNCHANGED ckIn
  /\ UNCHANGED ckOthers

\* no call
CkIdle ==
  /\ ckIn = Null
  /\ ckOut = Null

\* a call with any input within the contract
CkInit ==
  /\ ckIn \in {Some(in) : in \in ChunkInputs}
  /\ ckOut = Null

NextChunker == CkCall

\* C12: Fixed chunking of a text of length L > O with window size S and
\* overlap O < S gives exactly ceil((L - O) / (S - O)) chunks.  Sliding-window
\* chunking advances by its stride T < S, whatever the overlap, and gives
\* ceil((L - (S - T)) / T) chunks for L > S - T and one chunk for a shorter
\* text that is not empty: the count of Fixed when T = S - O.  With both,
\* each chunk has at most S characters and the last window is emitted even
\* when it is shorter; S = 500, O = 50, L = 1200 gives 3 chunks; there are
\* zero chunks only for the empty text.
C12_WindowCount ==
  /\ Len(FixedSpans(1200, 500, 50)) = 3
  /\ Len(SlidingSpans(1200, 500, 500 - 50)) = 3
  /\ (~IsNull(ckOut) /\ Val(ckIn).strategy \in {"fixed", "sliding_window"}) =>
       LET in == Val(ckIn)
           chunks == Val(ckOut)
           L == Len(in.text)
           left == in.size - in.stride
       IN  /\ (in.strategy = "fixed" /\ L > in.overlap) =>
                Len(chunks) = CeilDiv(L - in.overlap, in.size - in.overlap)
           /\ (in.strategy = "sliding_window" /\ L > left) =>
                Len(chunks) = CeilDiv(L - left, in.stride)
           /\ (in.strategy = "sliding_window" /\ 0 < L /\ L <= left) =>
                Len(chunks) = 1
           /\ \A i \in DOMAIN chunks : chunks[i].char_count <= in.size
           /\ L > 0 => chunks[Len(chunks)].end_offset = L
           /\ (chunks = <<>>) <=> (L = 0)

\* a text longer than one window has been chunked with an overlap, and its
\* last window is shorter than the others
C12_Witness ==
  /\ ~IsNull(ckOut)
  /\ Val(ckIn).strategy = "fixed"
  /\ Val(ckIn).overlap > 0
  /\ Len(Val(ckOut)) >= 2
  /\ Val(ckOut)[Len(Val(ckOut))].char_count < Val(ckIn).size

\* Fixed and sliding-window chunking alike give ceil((L - O) / (S - O))
\* chunks of at most S characters for L > O, the last window emitted even
\* when it is shorter, 3 chunks for S = 500, O = 50, L = 1200, and zero
\* chunks only for the empty text
C12_CountFromOverlap ==
  /\ Len(FixedSpans(1200, 500, 50)) = 3
  /\ (~IsNull(ckOut) /\ Val(ckIn).strategy \in {"fixed", "sliding_window"}) =>
       LET in == Val(ckIn)
           chunks == Val(ckOut)
           L == Len(in.text)
       IN  /\ L > in.overlap =>
                Len(chunks) = CeilDiv(L - in.overlap, in.size - in.overlap)
           /\ \A i \in DOMAIN chunks : chunks[i].char_count <= in.size
           /\ L > 0 => chunks[Len(chunks)].end_offset = L
           /\ (chunks = <<>>) <=> (L = 0)

maxSize == 10 * 1024 * 1024

TenMiB == 10 * 1024 * 1024

allowedTypes == <<<<".", "t", "x", "t">>, <<".", "m", "d">>>>

\* the capital letters that occur in the names, and their small letters
Capitals == [T |-> "t", X |-> "x", M |-> "m", D |-> "d"]

FileNames ==
  { <<"a", ".", "t", "x", "t">>,
    <<"a", ".", "T", "X", "T">>,
    <<"a", ".", "m", "d">>,
    <<"a", ".", "M", "d">>,
    <<".", "m", "d">>,
    <<"a", ".", "p", "d", "f">>,
    <<"t", "x", "t">>,
    <<"a", ".", "t", "x", "t", ".", "p", "d", "f">>,
    <<"a", ".", "p", "d", "f", ".", "M", "D">>,
    <<"a", ".", "m", "d", "x">>,
    <<"a", ".">> }

FileSizes == {0, 10485759, 10485760, 10485761}

Files == [name : FileNames, size : FileSizes]

\* String.prototype.lastIndexOf: positions count from 0, -1 when absent
lastIndexOf(s, c) ==
  IF \E i \in DOMAIN s : s[i] = c
    THEN SetMax({i \in DOMAIN s : s[i] = c}) - 1
    ELSE -1

\* String.prototype.substring(start): a negative start counts as 0
substring(s, start) ==
  SubSeq(s, (IF start < 0 THEN 0 ELSE start) + 1, Len(s))

SameCase(s) == s

toLowerCase(s) ==
  [i \in DOMAIN s |->
     IF s[i] \in DOMAIN Capitals THEN Capitals[s[i]] ELSE s[i]]

includes(list, x) == \E i \in DOMAIN list : list[i] = x

fileExt(file) ==
  toLowerCase(substring(file.name, lastIndexOf(file.name, ".")))

UnsupportedType == "Unsupported file type. Allowed types: .txt, .md"
TooLarge == "File too large. Maximum size: 10MB"
UploadFailed == "Upload failed"

\* the uploads under way that the back end has not handled yet
Uploading ==
  (IF IsNull(uplWire) \/ uplServed THEN 0 ELSE 1)
    + BagCardinality([o \in {x \in BagToSet(uplOrphans) : ~x.served} |->
                        CopiesIn(o, uplOrphans)])

\* onChange of the file input of the DocumentUpload shown in phase 0, which
\* is disabled while a file is uploading; file is Null when the dialog was
\* closed without a file
handleFileSelect(file) ==
  /\ AppShown /\ appPhase = 0
  /\ ~uplIsUploading
  /\ beUploads + Uploading < MaxUploads
  /\ IF IsNull(file)
       THEN UNCHANGED uplComp
       ELSE /\ uplChosen' = file
            /\ IF ~includes(allowedTypes, fileExt(Val(file)))
                 THEN /\ uplError' = Some(UnsupportedType)
                      /\ UNCHANGED <<uplIsUploading, uplWire, uplServed>>
                 ELSE IF Val(file).size > maxSize
                   THEN /\ uplError' = Some(TooLarge)
                        /\ UNCHANGED <<uplIsUploading, uplWire, uplServed>>
                   ELSE /\ uplError' = Null
                        /\ uplIsUploading' = TRUE
                        /\ uplWire' = file
                        /\ uplServed' = FALSE
  /\ UNCHANGED <<uplOrphans, beUploads, appLoads, listDeletingId>>
  /\ UNCHANGED uplOthers

\* the id the back end gives the next document it stores
NewDocument == MaxDocs + beUploads + 1

\* the back end handles the upload on the wire: it holds a new document
BeUpload ==
  /\ ~IsNull(uplWire) /\ ~uplServed
  /\ uplServed' = TRUE
  /\ beDocs' = beDocs \cup {NewDocument}
  /\ beUploads' = beUploads + 1
  /\ UNCHANGED <<uplIsUploading, uplError, uplChosen, uplWire, uplOrphans,
                 appLoads, listDeletingId>>
  /\ UNCHANGED <<appData, appDocuments, appLoading, appError, appPhase,
                 appDocDeletes>>
  /\ UNCHANGED <<chkComp, chkOrphans, embComp, embForm, embOutdated,
                 embOrphans, vsComp, vsForm, vsOrphans, dbVars, srchComp,
                 qryComp, qryOrphans>>
  /\ UNCHANGED phaseOthers

\* the back end handles the upload of a DocumentUpload that is unmounted
BeUploadOrphan(o) ==
  /\ o \in BagToSet(uplOrphans) /\ ~o.served
  /\ uplOrphans' = Put(Take(uplOrphans, o), [o EXCEPT !.served = TRUE])
  /\ beDocs' = beDocs \cup {NewDocument}
  /\ beUploads' = beUploads + 1
  /\ UNCHANGED <<uplComp, appLoads, listDeletingId>>
  /\ UNCHANGED <<appData, appDocuments, appLoading, appError, appPhase,
                 appDocDeletes>>
  /\ UNCHANGED <<chkComp, chkOrphans, embComp, embForm, embOutdated,
                 embOrphans, vsComp, vsForm, vsOrphans, dbVars, srchComp,
                 qryComp, qryOrphans>>
  /\ UNCHANGED phaseOthers

\* onUploadSuccess, which is App.handleUploadSuccess: loadDocuments
handleUploadSuccess(wire, orphans) ==
  /\ loadDocuments(wire, orphans)
  /\ UNCHANGED <<appData, appDocuments, appPhase>>
  /\ UNCHANGED phaseOthers

\* await uploadDocument(file) returns: onUploadSuccess; the file input is
\* reset; finally.  The spinner has taken the place of the component.
UplResolved ==
  /\ ~IsNull(uplWire) /\ uplServed
  /\ handleUploadSuccess(Null, uplOrphans)
  /\ UNCHANGED <<beDocs, beUploads>>

\* await uploadDocument(file) throws: catch, then finally
UplRejected(err) ==
  /\ ~IsNull(uplWire)
  /\ uplWire' = Null
  /\ uplServed' = FALSE
  /\ uplError' = Some(MessageOf(err, UploadFailed))
  /\ uplIsUploading' = FALSE
  /\ UNCHANGED <<uplChosen, uplOrphans, beUploads, appLoads, listDeletingId>>
  /\ UNCHANGED uplOthers

\* await uploadDocument(file) returns in a DocumentUpload that is
\* unmounted: its onUploadSuccess is still App.handleUploadSuccess
UplOrphanResolved(o) ==
  /\ o \in BagToSet(uplOrphans) /\ o.served
  /\ handleUploadSuccess(uplWire, Take(uplOrphans, o))
  /\ UNCHANGED <<beDocs, beUploads>>

\* await uploadDocument(file) throws in a DocumentUpload that is unmounted:
\* no state is set
UplOrphanRejected(o) ==
  /\ o \in BagToSet(uplOrphans)
  /\ uplOrphans' = Take(uplOrphans, o)
  /\ UNCHANGED <<uplComp, beUploads, appLoads, listDeletingId>>
  /\ UNCHANGED uplOthers

UplInit ==
  /\ uplIsUploading = FALSE
  /\ uplError = Null
  /\ uplChosen = Null
  /\ uplWire = Null
  /\ uplOrphans = EmptyBag
  /\ beUploads = 0
  /\ uplServed = FALSE
  /\ appLoads = Put(EmptyBag, Null)
  /\ listDeletingId = Null

\* the files tried where the upload is followed through the phases
FilesTried ==
  {[name |-> <<"a", ".", "t", "x", "t">>, size |-> 0],
   [name |-> <<"a", ".", "p", "d", "f">>, size |-> 0]}

\* DocumentUpload in phase 0, with the reload of the document list that a
\* successful upload causes; the list comes in one order
NextUpload ==
  \/ BeGetDocuments(Ascending(beDocs))
  \/ \E docs \in Answered(appLoads) : AppDocsLoaded(docs)
  \/ \E err \in Thrown("Failed to fetch documents") : AppDocsLoadFailed(err)
  \/ \E file \in {Null} \cup {Some(f) : f \in Files} : handleFileSelect(file)
  \/ BeUpload
  \/ UplResolved
  \/ \E err \in Thrown(UploadFailed) : UplRejected(err)

\* an upload that is under way while the user moves through the phases
NextReload ==
  \/ BeGetDocuments(Ascending(beDocs))
  \/ \E docs \in Answered(appLoads) : AppDocsLoaded(docs)
  \/ \E err \in Unreached : AppDocsLoadFailed(err)
  \/ \E file \in FilesTried : handleFileSelect(Some(file))
  \/ BeUpload
  \/ UplResolved
  \/ \E err \in Thrown(UploadFailed) : UplRejected(err)
  \/ \E o \in BagToSet(uplOrphans) : BeUploadOrphan(o)
  \/ \E o \in BagToSet(uplOrphans) : UplOrphanResolved(o)
  \/ \E o \in BagToSet(uplOrphans) : UplOrphanRejected(o)
  \/ handleDocumentSelect(1)
  \/ \E f \in BagToSet(appFetches) : BeGetDocument(f)
  \/ \E f \in BagToSet(appFetches) : AppFetchResolved(f)
  \/ handleNextPhase
  \/ handlePrevPhase

\* the part of a name from its last dot on; nothing when it has no dot
Extension(name) ==
  IF \E i \in DOMAIN name : name[i] = "."
    THEN SubSeq(name, SetMax({i \in DOMAIN name : name[i] = "."}), Len(name))
    ELSE <<>>

\* two texts that differ in nothing but the case of their letters
EqualIgnoringCase(a, b) ==
  /\ Len(a) = Len(b)
  /\ \A i \in DOMAIN a :
       \/ a[i] = b[i]
       \/ a[i] \in DOMAIN Capitals /\ Capitals[a[i]] = b[i]
       \/ b[i] \in DOMAIN Capitals /\ Capitals[b[i]] = a[i]

Acceptable(file) ==
  /\ \/ EqualIgnoringCase(Extension(file.name), <<".", "t", "x", "t">>)
     \/ EqualIgnoringCase(Extension(file.name), <<".", "m", "d">>)
  /\ file.size <= TenMiB

\* C16: choosing a file sends an upload request if and only if the file's
\* extension, compared without regard to case, is .txt or .md and its size
\* is at most 10 MiB, the bound included; for any other file an error
\* message is set, no request is sent and the document list is not
\* reloaded.
C16_UploadIffAcceptable ==
  [][\A f \in Files :
       handleFileSelect(Some(f)) =>
         IF Acceptable(f)
           THEN uplWire' = Some(f) /\ appLoads' = appLoads
           ELSE /\ ~IsNull(uplError')
                /\ uplWire' = uplWire /\ IsNull(uplWire')
                /\ appLoads' = appLoads
                /\ appLoading' = appLoading]_vars

\* a file named in capitals and of exactly 10 MiB is on the wire
C16_Witness ==
  /\ uplChosen = Some([name |-> <<"a", ".", "T", "X", "T">>, size |-> TenMiB])
  /\ uplWire = uplChosen
  /\ uplIsUploading

(***************************************************************************)
(* Specifications.                                                         *)
(***************************************************************************)
FeInit ==
  /\ CmpInit /\ QryInit /\ ChkInit /\ AppInit /\ StInit /\ WrInit /\ DbInit
  /\ SrchInit /\ UplInit

Init == FeInit /\ CkIdle

\* the Chunker is a pure function: its inputs are drawn at the start
InitChunker == FeInit /\ CkInit

Next ==
  \/ NextCompare \/ NextQuery \/ NextChunk \/ NextStore \/ NextWriters
  \/ NextDB \/ NextSearch \/ NextChunker \/ NextSelect \/ NextApp
  \/ NextEmbed \/ NextVectors \/ NextStoring \/ NextUpload \/ NextReload
  \/ \E request \in BagToSet(qryOrphans) : QryOrphanSettled(request)

SpecCompare == Init /\ [][NextCompare]_vars

SpecQuery == Init /\ [][NextQuery]_vars

SpecChunk == Init /\ [][NextChunk]_vars

SpecStore == Init /\ [][NextStore]_vars

SpecWriters == Init /\ [][NextWriters]_vars

SpecDB == Init /\ [][NextDB]_vars

SpecSearch == Init /\ [][NextSearch]_vars

SpecSelect == Init /\ [][NextSelect]_vars

SpecEmbed == Init /\ [][NextEmbed]_vars

SpecVectors == Init /\ [][NextVectors]_vars

SpecApp == Init /\ [][NextApp]_vars

SpecStoring == Init /\ [][NextStoring]_vars

SpecChunker == InitChunker /\ [][NextChunker]_vars

SpecUpload == Init /\ [][NextUpload]_vars

SpecReload == Init /\ [][NextReload]_vars

Spec == Init /\ [][Next]_vars

====
